---- MODULE Spec2Model ----
(***************************************************************************)
(* A model of the BitGo proof-of-solvency prover and verifier.             *)
(*                                                                         *)
(* Hashes.  MiMC over BN254 is modelled as a free (collision-free)         *)
(* constructor over the sequence of field elements written into the        *)
(* hasher: MiMC(<<a, b>>) is the digest after Write(a), Write(b), Sum().   *)
(* A field element is either FInt(n), the 32-byte big-endian encoding of   *)
(* the integer n, or a digest.                                             *)
(*                                                                         *)
(* Optional values (Go nil pointers and nil slices) are sequences: <<>>    *)
(* is nil, <<v>> is a pointer to v.                                        *)
(***************************************************************************)
EXTENDS Integers, Sequences, FiniteSets, TLC

(***************************************************************************)
(* Bounds of the model.  The program fixes the tree depth at 10, the       *)
(* number of assets at 40 and the range check at 128 bits; the model       *)
(* checks the same algorithms at a reduced size.                           *)
(***************************************************************************)
TREE_DEPTH == 2

NumberOfAssets == 2

RANGE_CHECK_BITS == 3

MaxBatchCount == 5

MaxCountPerBatch == 2

NumWorkers == 2

----------------------------------------------------------------------------
(* circuit: constants and helpers *)

PowOfTwo(n) == 2 ^ n

ACCOUNTS_PER_BATCH == PowOfTwo(TREE_DEPTH)

GetNumberOfAssets == NumberOfAssets

Nil == <<>>

Some(v) == <<v>>

FInt(n) == [int |-> n]

MiMC(data) == [mimc |-> data]

\* The order of the scalar field, scaled with the tree depth and the range:
\* like the real one it exceeds every sum that three layers of balances
\* within the range bound can reach.
FieldModulus == PowOfTwo(2 * TREE_DEPTH + RANGE_CHECK_BITS) + 1

\* The length of a padded value: that of the order of the field.  The model
\* counts it in bits.
ModBytes == 2 * TREE_DEPTH + RANGE_CHECK_BITS + 1

\* padToModBytes panics on a negative value and, when the value is longer
\* than ModBytes, in make() with a negative length; PadPanics states when.
PadPanics(num) == num < 0 \/ num >= PowOfTwo(ModBytes)

padToModBytes(num) == FInt(num)

BalancePanics(balance) ==
    \/ Len(balance) # GetNumberOfAssets
    \/ \E i \in 1..Len(balance) : PadPanics(balance[i])

goConvertBalanceToBytes(balance) ==
    [i \in 1..Len(balance) |-> padToModBytes(balance[i])]

\* GoComputeMiMCHashForAccount panics when the balance cannot be turned into
\* bytes and when the hasher refuses them: Write takes a block of ModBytes
\* only if it is an element of the field, that is, below its order.
HashPanics(balance) ==
    \/ BalancePanics(balance)
    \/ \E i \in 1..Len(balance) : balance[i] >= FieldModulus

GoComputeMiMCHashForAccount(account) ==
    LET balanceHash == MiMC(goConvertBalanceToBytes(account.Balance))
    IN  MiMC(<<account.UserId, balanceHash>>)

GoComputeMiMCHashesForAccounts(accounts) ==
    [i \in 1..Len(accounts) |-> GoComputeMiMCHashForAccount(accounts[i])]

\* ConvertGoAccountsToAccounts and ConvertGoBalanceToBalance pad every
\* component, which panics on a negative one and on one that is too long.
ConvertPanics(assignment) ==
    \/ \E j \in 1..Len(assignment.Accounts) :
          BalancePanics(assignment.Accounts[j].Balance)
    \/ BalancePanics(assignment.AssetSum)

\* frontend.NewWitness reads the bytes of a variable as an unsigned integer
\* and reduces it modulo the order of the field.
FieldElement(v) == v % FieldModulus

NewWitness(assignment) ==
    [Accounts |-> [j \in 1..Len(assignment.Accounts) |->
                      [UserId  |-> assignment.Accounts[j].UserId,
                       Balance |-> [k \in 1..Len(assignment.Accounts[j].Balance) |->
                                       FieldElement(assignment.Accounts[j].Balance[k])]]],
     AssetSum |-> [k \in 1..Len(assignment.AssetSum) |->
                      FieldElement(assignment.AssetSum[k])],
     MerkleRoot |-> assignment.MerkleRoot,
     MerkleRootWithAssetSumHash |-> assignment.MerkleRootWithAssetSumHash]

\* A plausible slip: the two nodes are written in the other order.
HashOfTwoNodesSwapped(node1, node2) == MiMC(<<node2, node1>>)

GoComputeHashOfTwoNodes(node1, node2) == MiMC(<<node1, node2>>)

\* Layer i of a grid (Go index i) is element i+1 of the sequence; entry j of
\* a layer (Go index j) is element j+1.
At(s, i) == s[i + 1]

PadLeaves(hashes, treeDepth) ==
    [k \in 1..PowOfTwo(treeDepth) |->
        IF k <= Len(hashes) THEN hashes[k] ELSE padToModBytes(0)]

TooManyLeaves(hashes, treeDepth) == Len(hashes) > PowOfTwo(treeDepth)

\* The root-only computation reduces one array in place, layer by layer.
RECURSIVE ReduceInPlace(_, _)
ReduceInPlace(nodes, i) ==
    IF i < 0 THEN nodes
    ELSE ReduceInPlace(
            [k \in 1..Len(nodes) |->
                IF k <= PowOfTwo(i)
                THEN MiMC(<<nodes[2 * k - 1], nodes[2 * k]>>)
                ELSE nodes[k]],
            i - 1)

\* A plausible slip: a short list is filled up with its last hash.
goComputeMerkleRootRepeatingLast(hashes, treeDepth) ==
    LET padded == [k \in 1..PowOfTwo(treeDepth) |->
                      IF k <= Len(hashes) THEN hashes[k]
                      ELSE IF hashes = <<>> THEN FInt(0)
                      ELSE hashes[Len(hashes)]]
    IN  ReduceInPlace(padded, treeDepth - 1)[1]

goComputeMerkleRootFromHashes(hashes, treeDepth) ==
    ReduceInPlace(PadLeaves(hashes, treeDepth), treeDepth - 1)[1]

GoComputeMerkleRootFromHashes(hashes) ==
    goComputeMerkleRootFromHashes(hashes, TREE_DEPTH)

GoComputeMerkleRootFromAccounts(accounts) ==
    GoComputeMerkleRootFromHashes(GoComputeMiMCHashesForAccounts(accounts))

\* The grid computation keeps every layer: layer i is built from layer i+1.
RECURSIVE LayersAbove(_, _)
LayersAbove(below, i) ==
    IF i < 0 THEN <<>>
    ELSE LET layer == [k \in 1..PowOfTwo(i) |->
                          MiMC(<<below[2 * k - 1], below[2 * k]>>)]
         IN  Append(LayersAbove(layer, i - 1), layer)

\* A plausible slip: the first layer holds the leaves and the last the root.
goComputeMerkleTreeNodesLeavesFirst(hashes, treeDepth) ==
    LET bottom == PadLeaves(hashes, treeDepth)
        above == LayersAbove(bottom, treeDepth - 1)
    IN  <<bottom>> \o [i \in 1..Len(above) |-> above[Len(above) + 1 - i]]

goComputeMerkleTreeNodesFromHashes(hashes, treeDepth) ==
    LET bottom == PadLeaves(hashes, treeDepth)
    IN  Append(LayersAbove(bottom, treeDepth - 1), bottom)

GoComputeMerkleTreeNodesFromAccounts(accounts) ==
    goComputeMerkleTreeNodesFromHashes(
        GoComputeMiMCHashesForAccounts(accounts), TREE_DEPTH)

MerklePathPanics(position, nodes) ==
    LET treeDepth == Len(nodes) - 1
    IN  \/ position < 0
        \/ treeDepth < 0
        \/ position >= PowOfTwo(treeDepth)
        \/ \E i \in 1..treeDepth : Len(At(nodes, i)) # PowOfTwo(i)

\* A plausible slip: the sibling is always taken to the right.
MerklePathFromRight(nodes, i, currPos) ==
    [k \in 1..i |->
        LET pos == currPos \div PowOfTwo(k - 1)
            lay == At(nodes, i - k + 1)
        IN  IF pos + 1 < Len(lay) THEN At(lay, pos + 1) ELSE At(lay, pos)]

RECURSIVE MerklePathFrom(_, _, _)
MerklePathFrom(nodes, i, currPos) ==
    IF i <= 0 THEN <<>>
    ELSE LET sibling == IF currPos % 2 = 0
                        THEN At(At(nodes, i), currPos + 1)
                        ELSE At(At(nodes, i), currPos - 1)
         IN  <<sibling>> \o MerklePathFrom(nodes, i - 1, currPos \div 2)

ComputeMerklePath(position, nodes) ==
    MerklePathFrom(nodes, Len(nodes) - 1, position)

----------------------------------------------------------------------------
(* core: verifier primitives.  Each returns "ok" or the error it reports. *)

\* A plausible slip: the current node is always hashed first.
RECURSIVE FoldPathNoSwap(_, _, _)
FoldPathNoSwap(curr, currPos, path) ==
    IF path = <<>> THEN curr
    ELSE FoldPathNoSwap(GoComputeHashOfTwoNodes(curr, Head(path)),
                        currPos \div 2, Tail(path))

RECURSIVE FoldPath(_, _, _)
FoldPath(curr, currPos, path) ==
    IF path = <<>> THEN curr
    ELSE LET sibling == Head(path)
             parent  == IF currPos % 2 = 1
                        THEN GoComputeHashOfTwoNodes(sibling, curr)
                        ELSE GoComputeHashOfTwoNodes(curr, sibling)
         IN  FoldPath(parent, currPos \div 2, Tail(path))

\* A plausible slip: the length of the path is not checked.
verifyMerklePathAnyLength(hash, hashPosition, path, root) ==
    IF hashPosition < 0 \/ hashPosition >= PowOfTwo(TREE_DEPTH)
    THEN "hashPosition out of bounds"
    ELSE IF FoldPath(hash, hashPosition, path) # root
    THEN "merkle proof path verification failed"
    ELSE "ok"

\* A plausible slip: the position is not checked against the tree width.
verifyMerklePathNoRange(hash, hashPosition, path, root) ==
    IF Len(path) # TREE_DEPTH
    THEN "merkle path is not of depth of tree"
    ELSE IF FoldPath(hash, hashPosition, path) # root
    THEN "merkle proof path verification failed"
    ELSE "ok"

verifyMerklePath(hash, hashPosition, path, root) ==
    IF Len(path) # TREE_DEPTH
    THEN "merkle path is not of depth of tree"
    ELSE IF hashPosition < 0 \/ hashPosition >= PowOfTwo(TREE_DEPTH)
    THEN "hashPosition out of bounds"
    ELSE IF FoldPath(hash, hashPosition, path) # root
    THEN "merkle proof path verification failed"
    ELSE "ok"

\* The loop of verifyBuild at layer i and above, leaves first: the width of
\* the parent layer is tested, then every pair of layer i is hashed and
\* compared with its parent, and only then the next layer up is looked at.
RECURSIVE verifyBuildLayers(_, _)
verifyBuildLayers(nodes, i) ==
    IF i < 1 THEN "ok"
    ELSE IF Len(At(nodes, i - 1)) # PowOfTwo(i - 1)
    THEN "invalid number of nodes"
    ELSE IF \E j \in 0..(PowOfTwo(i - 1) - 1) :
                GoComputeHashOfTwoNodes(At(At(nodes, i), 2 * j),
                                        At(At(nodes, i), 2 * j + 1))
                    # At(At(nodes, i - 1), j)
    THEN "incorrect hash found"
    ELSE verifyBuildLayers(nodes, i - 1)

verifyBuild(nodes, root, treeDepth) ==
    IF Len(nodes) - 1 # treeDepth
    THEN "unexpected number of layers"
    ELSE IF Len(At(nodes, treeDepth)) # PowOfTwo(treeDepth)
    THEN "invalid number of nodes"
    ELSE IF verifyBuildLayers(nodes, treeDepth) # "ok"
    THEN verifyBuildLayers(nodes, treeDepth)
    ELSE IF At(At(nodes, 0), 0) # root
    THEN "given root doesn't match root of given merkle nodes"
    ELSE "ok"

\* verifyMerklePath on the memory it shares with its caller.  A Hash is a
\* slice: a reference to an array of bytes.  mem is the sequence of the
\* arrays, s.curr the array the local curr refers to, and s.path the
\* caller's array of references behind the slice path.

\* A plausible slip: the swap for an odd position exchanges the current
\* node with the element of the path slice instead of the loop's copy
\* (curr, path[i] = path[i], curr).
verifyMerklePathRoundSwapInPlace(s, i) ==
    LET odd == s.currPos % 2 = 1
        node1 == IF odd THEN s.path[i] ELSE s.curr
        node2 == IF odd THEN s.curr ELSE s.path[i]
        sum == GoComputeHashOfTwoNodes(s.mem[node1], s.mem[node2])
    IN  [s EXCEPT !.mem = Append(@, sum),
                  !.path[i] = IF odd THEN s.curr ELSE @,
                  !.curr = Len(s.mem) + 1,
                  !.currPos = @ \div 2]

\* One round of the loop, for element i of the path.  sibling is the range
\* copy of the reference path[i]; for an odd position the two locals are
\* exchanged; GoComputeHashOfTwoNodes reads the two arrays and returns
\* hasher.Sum(nil), a new array, to which curr is rebound.
verifyMerklePathRound(s, i) ==
    LET sibling == s.path[i]
        node1 == IF s.currPos % 2 = 1 THEN sibling ELSE s.curr
        node2 == IF s.currPos % 2 = 1 THEN s.curr ELSE sibling
        sum == GoComputeHashOfTwoNodes(s.mem[node1], s.mem[node2])
    IN  [s EXCEPT !.mem = Append(@, sum),
                  !.curr = Len(s.mem) + 1,
                  !.currPos = @ \div 2]

RECURSIVE verifyMerklePathLoop(_, _)
verifyMerklePathLoop(s, i) ==
    IF i > Len(s.path) THEN s
    ELSE verifyMerklePathLoop(verifyMerklePathRound(s, i), i + 1)

\* What the caller's hash, path and root hold when verifyMerklePath is
\* over, and the error it returns: the call starts with hash in array 1,
\* root in array 2 and the elements of path in the arrays after them,
\* returns its error before the loop on a path of the wrong length or a
\* position out of bounds, compares the array curr refers to with root
\* after the loop, and the caller reads its slices back.
AfterVerifyMerklePath(hash, hashPosition, path, root) ==
    LET entry == [mem |-> <<hash, root>> \o path,
                  path |-> [i \in 1..Len(path) |-> i + 2],
                  curr |-> 1,
                  currPos |-> hashPosition]
        early == IF Len(path) # TREE_DEPTH
                 THEN "merkle path is not of depth of tree"
                 ELSE IF hashPosition < 0 \/ hashPosition >= PowOfTwo(TREE_DEPTH)
                 THEN "hashPosition out of bounds"
                 ELSE "ok"
        s == IF early # "ok" THEN entry ELSE verifyMerklePathLoop(entry, 1)
    IN  [hash |-> s.mem[1],
         root |-> s.mem[2],
         path |-> [i \in 1..Len(s.path) |-> s.mem[s.path[i]]],
         err |-> IF early # "ok" THEN early
                 ELSE IF s.mem[s.curr] # s.mem[2]
                 THEN "merkle proof path verification failed"
                 ELSE "ok"]

----------------------------------------------------------------------------
(* circuit: balances, test data and the arithmetic circuit *)

ConstructGoBalance == [i \in 1..GetNumberOfAssets |-> 0]

\* A plausible slip: only the length of a balance is checked.
SumPanicsOnLength(accounts) ==
    \E i \in 1..Len(accounts) : Len(accounts[i].Balance) # GetNumberOfAssets

SumPanics(accounts) ==
    \E i \in 1..Len(accounts) :
        \/ Len(accounts[i].Balance) # GetNumberOfAssets
        \/ \E k \in 1..Len(accounts[i].Balance) : accounts[i].Balance[k] < 0

INVALID_BALANCE_LENGTH_MESSAGE == "balance must have the same length as assets"

\* The message of the panic SumGoAccountBalances raises: that of the first
\* account, in order, that has one.
SumPanicMessage(accounts) ==
    LET bad(i) == \/ Len(accounts[i].Balance) # GetNumberOfAssets
                  \/ \E k \in 1..Len(accounts[i].Balance) :
                        accounts[i].Balance[k] < 0
        first == CHOOSE i \in 1..Len(accounts) :
                    bad(i) /\ \A h \in 1..(i - 1) : ~bad(h)
    IN  IF Len(accounts[first].Balance) # GetNumberOfAssets
        THEN INVALID_BALANCE_LENGTH_MESSAGE
        ELSE "negative asset balance found"

RECURSIVE SumFrom(_, _)
SumFrom(assetSum, accounts) ==
    IF accounts = <<>> THEN assetSum
    ELSE SumFrom([k \in 1..GetNumberOfAssets |->
                     assetSum[k] + Head(accounts).Balance[k]],
                 Tail(accounts))

SumGoAccountBalances(accounts) == SumFrom(ConstructGoBalance, accounts)

EqualsPanics(a, b) ==
    Len(a) # Len(b) \/ Len(a) # GetNumberOfAssets

\* A plausible slip: the first assets are compared and the last one is not.
EqualsButLast(a, b) == \A i \in 1..(Len(a) - 1) : a[i] = b[i]

Equals(a, b) == \A i \in 1..Len(a) : a[i] = b[i]

\* The generator draws user ids and balances from a seeded source; the model
\* replaces the source by a fixed function of the seed.
TestUserId(seed, j) == FInt(10 * (seed + 1) + j)

TestAmount(seed, j, k) ==
    IF (seed + j + k) % 3 = 0 THEN 1 + (seed % 2) ELSE 0

GenerateTestData(count, seed) ==
    LET accounts == [j \in 1..count |->
                        [UserId  |-> TestUserId(seed, j),
                         Balance |-> [k \in 1..GetNumberOfAssets |->
                                         TestAmount(seed, j, k)]]]
        assetSum == SumGoAccountBalances(accounts)
        merkleRoot == GoComputeMerkleRootFromAccounts(accounts)
    IN  [Accounts |-> accounts,
         AssetSum |-> Some(assetSum),
         MerkleRoot |-> Some(merkleRoot),
         MerkleRootWithAssetSumHash |->
             Some(GoComputeMiMCHashForAccount(
                    [UserId |-> merkleRoot, Balance |-> assetSum]))]

GenerateData(batchCount, countPerBatch, baseSeed) ==
    [i \in 1..batchCount |-> GenerateTestData(countPerBatch, baseSeed + i - 1)]

\* circuit.go: the in-circuit hashes and root.
hashBalance(balances) == MiMC([i \in 1..Len(balances) |-> FInt(balances[i])])

hashAccount(account) == MiMC(<<account.UserId, hashBalance(account.Balance)>>)

computeMerkleRootFromAccounts(accounts) ==
    LET nodes == [k \in 1..PowOfTwo(TREE_DEPTH) |->
                     IF k <= Len(accounts) THEN hashAccount(accounts[k])
                     ELSE FInt(0)]
    IN  ReduceInPlace(nodes, TREE_DEPTH - 1)[1]

\* A plausible slip: the bound itself is let through.
assertBalanceAtMostBound(balances) ==
    \A k \in 1..Len(balances) :
        balances[k] >= 0 /\ balances[k] <= PowOfTwo(RANGE_CHECK_BITS)

assertBalanceNonNegativeAndNonOverflow(balances) ==
    \A k \in 1..Len(balances) :
        balances[k] >= 0 /\ balances[k] < PowOfTwo(RANGE_CHECK_BITS)

\* Define panics while the circuit is being built.
DefinePanics(accounts) ==
    \/ Len(accounts) > PowOfTwo(TREE_DEPTH)
    \/ \E i \in 1..Len(accounts) : Len(accounts[i].Balance) # GetNumberOfAssets

\* A plausible slip: the asset sum is range-checked like a balance.
DefineWithSumInRange(w) ==
    /\ \A i \in 1..Len(w.Accounts) :
          assertBalanceNonNegativeAndNonOverflow(w.Accounts[i].Balance)
    /\ assertBalanceNonNegativeAndNonOverflow(w.AssetSum)
    /\ SumFrom(ConstructGoBalance, w.Accounts) = w.AssetSum
    /\ computeMerkleRootFromAccounts(w.Accounts) = w.MerkleRoot
    /\ hashAccount([UserId |-> w.MerkleRoot, Balance |-> w.AssetSum])
           = w.MerkleRootWithAssetSumHash

\* A plausible slip: the root-with-sum hash is left unconstrained.
DefineWithoutRootWithSum(w) ==
    /\ \A i \in 1..Len(w.Accounts) :
          assertBalanceNonNegativeAndNonOverflow(w.Accounts[i].Balance)
    /\ SumFrom(ConstructGoBalance, w.Accounts) = w.AssetSum
    /\ computeMerkleRootFromAccounts(w.Accounts) = w.MerkleRoot

\* The constraints Define adds, evaluated on a full witness.
Define(w) ==
    /\ \A i \in 1..Len(w.Accounts) :
          assertBalanceNonNegativeAndNonOverflow(w.Accounts[i].Balance)
    /\ SumFrom(ConstructGoBalance, w.Accounts) = w.AssetSum
    /\ computeMerkleRootFromAccounts(w.Accounts) = w.MerkleRoot
    /\ hashAccount([UserId |-> w.MerkleRoot, Balance |-> w.AssetSum])
           = w.MerkleRootWithAssetSumHash

----------------------------------------------------------------------------
(* The proof system.  A verifying key names the circuit it was set up for  *)
(* and the setup that made it.  A proof records the key it was made under, *)
(* the public inputs it was made for and, as a ghost, the balances and sum *)
(* of the witness.                                                         *)

CircuitFor(n) == [relation |-> "Circuit", accounts |-> n]

Setup(cs, id) == [cs |-> cs, pk |-> id, vk |-> [cs |-> cs, id |-> id]]

\* A constraint system with the circuit's public inputs and no constraints.
UnconstrainedFor(n) == [relation |-> "Unconstrained", accounts |-> n]

Groth16ProveFails(partial, w) ==
    \/ partial.cs.accounts # Len(w.Accounts)
    \/ partial.cs.relation = "Circuit" /\ ~Define(w)

Groth16Prove(partial, w) ==
    [vk |-> partial.vk,
     MerkleRoot |-> w.MerkleRoot,
     MerkleRootWithAssetSumHash |-> w.MerkleRootWithAssetSumHash,
     witness |-> [Balances |-> [i \in 1..Len(w.Accounts) |-> w.Accounts[i].Balance],
                  AssetSum |-> w.AssetSum]]

Groth16Verify(proof, vk, public) ==
    /\ proof.vk = vk
    /\ proof.MerkleRoot = public.MerkleRoot
    /\ proof.MerkleRootWithAssetSumHash = public.MerkleRootWithAssetSumHash

----------------------------------------------------------------------------
(* core: the prover *)

NoPanic == ""

\* frontend.Compile of the template circuit for proofLen accounts, then
\* groth16.Setup.  id names the setup.
CompileAndSetup(proofLen, id) == Setup(CircuitFor(proofLen), id)

\* A plausible slip: the limit itself is refused.
CompileFailsAtLimit(proofLen) == proofLen >= PowOfTwo(TREE_DEPTH)

CompileFails(proofLen) == proofLen > PowOfTwo(TREE_DEPTH)

CacheHit(cache, proofLen) == proofLen \in DOMAIN cache

CacheInsert(cache, proofLen, partial) ==
    [n \in (DOMAIN cache) \cup {proofLen} |->
        IF n = proofLen THEN partial ELSE cache[n]]

\* generateProof up to the cache lookup: the panic it raises, if any.
PreliminaryPanic(elements) ==
    IF elements.AssetSum = Nil THEN "AssetSum is nil"
    ELSE IF SumPanics(elements.Accounts)
    THEN SumPanicMessage(elements.Accounts)
    ELSE IF EqualsPanics(SumGoAccountBalances(elements.Accounts),
                         elements.AssetSum[1])
    THEN INVALID_BALANCE_LENGTH_MESSAGE
    ELSE IF ~Equals(SumGoAccountBalances(elements.Accounts),
                    elements.AssetSum[1])
    THEN "Asset sum does not match"
    ELSE IF /\ elements.MerkleRoot = Nil
            /\ \E i \in 1..Len(elements.Accounts) :
                  HashPanics(elements.Accounts[i].Balance)
    THEN "invalid balance"
    ELSE IF /\ elements.MerkleRoot = Nil
            /\ TooManyLeaves(elements.Accounts, TREE_DEPTH)
    THEN "too many hashes"
    ELSE IF /\ elements.MerkleRootWithAssetSumHash = Nil
            /\ HashPanics(elements.AssetSum[1])
    THEN "invalid balance"
    ELSE NoPanic

\* The roots generateProof uses: the given ones, or computed if nil.
RootOf(elements) ==
    IF elements.MerkleRoot = Nil
    THEN GoComputeMerkleRootFromAccounts(elements.Accounts)
    ELSE elements.MerkleRoot[1]

RootWithSumOf(elements) ==
    IF elements.MerkleRootWithAssetSumHash = Nil
    THEN GoComputeMiMCHashForAccount(
             [UserId |-> RootOf(elements), Balance |-> elements.AssetSum[1]])
    ELSE elements.MerkleRootWithAssetSumHash[1]

WitnessOf(elements) ==
    [Accounts |-> elements.Accounts,
     AssetSum |-> elements.AssetSum[1],
     MerkleRoot |-> RootOf(elements),
     MerkleRootWithAssetSumHash |-> RootWithSumOf(elements)]

CacheAfter(elements, cache, id) ==
    LET proofLen == Len(elements.Accounts)
    IN  IF PreliminaryPanic(elements) # NoPanic THEN cache
        ELSE IF CacheHit(cache, proofLen) THEN cache
        ELSE IF CompileFails(proofLen) THEN cache
        ELSE CacheInsert(cache, proofLen, CompileAndSetup(proofLen, id))

Compiles(elements, cache) ==
    /\ PreliminaryPanic(elements) = NoPanic
    /\ ~CacheHit(cache, Len(elements.Accounts))

generateProofPanic(elements, cache, id) ==
    LET proofLen == Len(elements.Accounts)
    IN  IF PreliminaryPanic(elements) # NoPanic
        THEN PreliminaryPanic(elements)
        ELSE IF ~CacheHit(cache, proofLen) /\ CompileFails(proofLen)
        THEN "Circuit failed to compile"
        ELSE IF ConvertPanics(WitnessOf(elements))
        THEN "invalid balance"
        ELSE IF Groth16ProveFails(CacheAfter(elements, cache, id)[proofLen],
                                  NewWitness(WitnessOf(elements)))
        THEN "Failed to prove witness satisfies constraints"
        ELSE IF \E i \in 1..Len(elements.Accounts) :
                    HashPanics(elements.Accounts[i].Balance)
        THEN "invalid balance"
        ELSE NoPanic

\* A plausible slip: the merkle root is computed where the circuit is
\* compiled, so a call that finds the keys cached leaves the root empty.
generateProofRootOnMiss(elements, cache, id) ==
    LET w == WitnessOf(elements)
        partial == CacheAfter(elements, cache, id)[Len(elements.Accounts)]
    IN  [Proof |-> Some(Groth16Prove(partial, NewWitness(w))),
         VerificationKey |-> Some(partial.vk),
         MerkleRoot |-> IF CacheHit(cache, Len(elements.Accounts))
                             /\ elements.MerkleRoot = Nil
                        THEN FInt(0) ELSE w.MerkleRoot,
         MerkleRootWithAssetSumHash |-> w.MerkleRootWithAssetSumHash,
         MerklePath |-> Nil,
         MerklePosition |-> 0,
         MerkleNodes |-> GoComputeMerkleTreeNodesFromAccounts(elements.Accounts),
         AssetSum |-> elements.AssetSum]

generateProof(elements, cache, id) ==
    LET w == WitnessOf(elements)
        partial == CacheAfter(elements, cache, id)[Len(elements.Accounts)]
    IN  [Proof |-> Some(Groth16Prove(partial, NewWitness(w))),
         VerificationKey |-> Some(partial.vk),
         MerkleRoot |-> w.MerkleRoot,
         MerkleRootWithAssetSumHash |-> w.MerkleRootWithAssetSumHash,
         MerklePath |-> Nil,
         MerklePosition |-> 0,
         MerkleNodes |-> GoComputeMerkleTreeNodesFromAccounts(elements.Accounts),
         AssetSum |-> elements.AssetSum]

ConvertProofToGoAccount(proof) ==
    [UserId |-> proof.MerkleRoot, Balance |-> proof.AssetSum[1]]

\* One round of the loop of generateNextLevelProofs: the lower proof is
\* tested for its sum, turned into an account and hashed, and the hash is
\* compared with the one the proof carries.
LowerProofPanic(proof) ==
    IF proof.AssetSum = Nil THEN "AssetSum is nil"
    ELSE IF HashPanics(proof.AssetSum[1]) THEN "invalid balance"
    ELSE IF proof.MerkleRootWithAssetSumHash #
                GoComputeMiMCHashForAccount(ConvertProofToGoAccount(proof))
    THEN "Merkle root with asset sum hash does not match"
    ELSE NoPanic

\* The panic generateNextLevelProofs raises before it calls generateProof:
\* that of the first lower proof, in order, that has one; after the loop,
\* that of the root or of the hash of the root with the sum.
NextLevelPanic(currentLevelProof) ==
    IF \E i \in 1..Len(currentLevelProof) :
            LowerProofPanic(currentLevelProof[i]) # NoPanic
    THEN LowerProofPanic(currentLevelProof[
             CHOOSE i \in 1..Len(currentLevelProof) :
                 /\ LowerProofPanic(currentLevelProof[i]) # NoPanic
                 /\ \A h \in 1..(i - 1) :
                       LowerProofPanic(currentLevelProof[h]) = NoPanic])
    ELSE IF TooManyLeaves(currentLevelProof, TREE_DEPTH)
    THEN "too many hashes"
    ELSE IF HashPanics(SumFrom(ConstructGoBalance,
                [i \in 1..Len(currentLevelProof) |->
                    ConvertProofToGoAccount(currentLevelProof[i])]))
    THEN "invalid balance"
    ELSE NoPanic

\* A plausible slip: the lower proofs are turned into accounts last to first.
NextLevelElementsReversed(currentLevelProof) ==
    LET nextLevelProofAccounts ==
            [i \in 1..Len(currentLevelProof) |->
                ConvertProofToGoAccount(
                    currentLevelProof[Len(currentLevelProof) + 1 - i])]
        assetSum == SumGoAccountBalances(nextLevelProofAccounts)
        merkleRoot == GoComputeMerkleRootFromAccounts(nextLevelProofAccounts)
    IN  [Accounts |-> nextLevelProofAccounts,
         AssetSum |-> Some(assetSum),
         MerkleRoot |-> Some(merkleRoot),
         MerkleRootWithAssetSumHash |->
             Some(GoComputeMiMCHashForAccount(
                    [UserId |-> merkleRoot, Balance |-> assetSum]))]

NextLevelElements(currentLevelProof) ==
    LET nextLevelProofAccounts ==
            [i \in 1..Len(currentLevelProof) |->
                ConvertProofToGoAccount(currentLevelProof[i])]
        assetSum == SumGoAccountBalances(nextLevelProofAccounts)
        merkleRoot == GoComputeMerkleRootFromAccounts(nextLevelProofAccounts)
    IN  [Accounts |-> nextLevelProofAccounts,
         AssetSum |-> Some(assetSum),
         MerkleRoot |-> Some(merkleRoot),
         MerkleRootWithAssetSumHash |->
             Some(GoComputeMiMCHashForAccount(
                    [UserId |-> merkleRoot, Balance |-> assetSum]))]

generateNextLevelProofsPanic(currentLevelProof, cache, id) ==
    IF NextLevelPanic(currentLevelProof) # NoPanic
    THEN NextLevelPanic(currentLevelProof)
    ELSE generateProofPanic(NextLevelElements(currentLevelProof), cache, id)

generateNextLevelProofs(currentLevelProof, cache, id) ==
    generateProof(NextLevelElements(currentLevelProof), cache, id)

\* A plausible slip: the end of a batch is computed one short.
batchProofsShort(proofs, batchSize) ==
    [b \in 1..((Len(proofs) + batchSize - 1) \div batchSize) |->
        SubSeq(proofs, (b - 1) * batchSize + 1,
               IF b * batchSize - 1 > Len(proofs) THEN Len(proofs)
               ELSE b * batchSize - 1)]

batchProofs(proofs, batchSize) ==
    [b \in 1..((Len(proofs) + batchSize - 1) \div batchSize) |->
        SubSeq(proofs, (b - 1) * batchSize + 1,
               IF b * batchSize > Len(proofs) THEN Len(proofs) ELSE b * batchSize)]

\* setLowerLevelProofsMerklePaths; index i is the Go index (from 0).
\* A plausible slip: every lower proof is placed under the first upper one.
UpperLevelProofIndexZero(i) == 0

UpperLevelProofIndex(i) == i \div ACCOUNTS_PER_BATCH

SetPathsPanics(lowerLevelProofs, upperLevelProofs) ==
    \E i \in 0..(Len(lowerLevelProofs) - 1) :
        \/ UpperLevelProofIndex(i) >= Len(upperLevelProofs)
        \/ MerklePathPanics(i % ACCOUNTS_PER_BATCH,
                            At(upperLevelProofs, UpperLevelProofIndex(i)).MerkleNodes)

\* A plausible slip: the path is set and the position is left at zero.
setLowerLevelProofsMerklePathsOnly(lowerLevelProofs, upperLevelProofs) ==
    [k \in 1..Len(lowerLevelProofs) |->
        [lowerLevelProofs[k] EXCEPT
            !.MerklePath =
                ComputeMerklePath(
                    (k - 1) % ACCOUNTS_PER_BATCH,
                    At(upperLevelProofs, UpperLevelProofIndex(k - 1)).MerkleNodes)]]

setLowerLevelProofsMerklePaths(lowerLevelProofs, upperLevelProofs) ==
    [k \in 1..Len(lowerLevelProofs) |->
        [lowerLevelProofs[k] EXCEPT
            !.MerklePath =
                ComputeMerklePath(
                    (k - 1) % ACCOUNTS_PER_BATCH,
                    At(upperLevelProofs, UpperLevelProofIndex(k - 1)).MerkleNodes),
            !.MerklePosition = (k - 1) % ACCOUNTS_PER_BATCH]]

\* writeProofsToFiles: the documents written, one per proof.
\* A plausible slip: the asset sum is written whatever the flag says.
KeepAssetSum(proof, saveAssetSum) == proof

StripAssetSum(proof, saveAssetSum) ==
    IF saveAssetSum THEN proof ELSE [proof EXCEPT !.AssetSum = Nil]

writeProofsToFiles(proofs, saveAssetSum) ==
    [k \in 1..Len(proofs) |-> StripAssetSum(proofs[k], saveAssetSum)]

----------------------------------------------------------------------------
(* core: the verifier *)

Ok == "ok"

verifyProof(proof) ==
    IF proof.Proof = Nil THEN "error decoding proof"
    ELSE IF proof.VerificationKey = Nil THEN "error decoding verification key"
    ELSE IF ~Groth16Verify(proof.Proof[1], proof.VerificationKey[1],
                [MerkleRoot |-> proof.MerkleRoot,
                 MerkleRootWithAssetSumHash |-> proof.MerkleRootWithAssetSumHash])
    THEN "proof verification failed"
    ELSE Ok

\* A plausible slip: the sum is only required to be present and hashable.
verifyTopLayerProofHasAssetSum(topLayerProof) ==
    IF topLayerProof.AssetSum = Nil THEN "top layer proof's AssetSum is nil"
    ELSE IF HashPanics(topLayerProof.AssetSum[1]) THEN "panic: invalid balance"
    ELSE Ok

verifyTopLayerProofMatchesAssetSum(topLayerProof) ==
    IF topLayerProof.AssetSum = Nil THEN "top layer proof's AssetSum is nil"
    ELSE IF HashPanics(topLayerProof.AssetSum[1]) THEN "panic: invalid balance"
    ELSE IF GoComputeMiMCHashForAccount(ConvertProofToGoAccount(topLayerProof))
                # topLayerProof.MerkleRootWithAssetSumHash
    THEN "top layer proof's MerkleRootWithAssetSumHash does not match"
    ELSE Ok

\* A check whose own evaluation panicked.
Panicked(err) == err \in {"panic: invalid balance", "panic: index out of range"}

\* A plausible slip: the error is dropped.
NeverPanics(err) == FALSE

\* panicOnError panics exactly when the error is not nil.
panicOnError(err) == err # Ok

\* A verification run is the list of its checks in program order; a check is
\* [name, err, inline], inline meaning the code panics by itself rather than
\* through panicOnError.  RunFrom executes them one by one and returns the
\* checks executed.
Aborts(check) ==
    IF check.inline THEN check.err # Ok
    ELSE panicOnError(check.err) \/ Panicked(check.err)

RECURSIVE RunFrom(_, _, _)
RunFrom(checks, k, log) ==
    IF k > Len(checks) THEN log
    ELSE IF Aborts(checks[k]) THEN Append(log, checks[k])
    ELSE RunFrom(checks, k + 1, Append(log, checks[k]))

RunChecks(checks) == RunFrom(checks, 1, <<>>)

\* The run panicked if its last executed check aborted it; otherwise it
\* returned.
LogOutcome(log) ==
    IF log # <<>> /\ Aborts(log[Len(log)]) THEN "panic" ELSE Ok

Outcome(checks) == LogOutcome(RunChecks(checks))

Check(name, err) == [name |-> name, err |-> err, inline |-> FALSE]

InlineCheck(name, err) == [name |-> name, err |-> err, inline |-> TRUE]

\* A plausible slip: the second inclusion check is a copy of the first.
VerifyUserChecksCopied(userVerifElements) ==
    LET info == userVerifElements.ProofInfo
        bottomProof == info.BottomProof
        middleProof == info.MiddleProof
        topProof == info.TopProof
        accountHash == GoComputeMiMCHashForAccount(userVerifElements.AccountInfo)
        accountInBottom ==
            verifyMerklePath(accountHash, info.UserMerklePosition,
                             info.UserMerklePath, bottomProof.MerkleRoot)
    IN  IF HashPanics(userVerifElements.AccountInfo.Balance)
        THEN <<InlineCheck("account hash", "panic: invalid balance")>>
        ELSE
        <<Check("bottom layer proof", verifyProof(bottomProof)),
          Check("mid layer proof", verifyProof(middleProof)),
          Check("top layer proof", verifyProof(topProof)),
          Check("account in bottom", accountInBottom),
          Check("bottom in middle", accountInBottom),
          Check("middle in top",
                verifyMerklePath(middleProof.MerkleRootWithAssetSumHash,
                                 middleProof.MerklePosition,
                                 middleProof.MerklePath, topProof.MerkleRoot)),
          Check("top asset sum", verifyTopLayerProofMatchesAssetSum(topProof))>>

\* VerifyUser: the account is hashed first (a panic there precedes every
\* check), then seven checks.
VerifyUserChecks(userVerifElements) ==
    LET info == userVerifElements.ProofInfo
        bottomProof == info.BottomProof
        middleProof == info.MiddleProof
        topProof == info.TopProof
        accountHash == GoComputeMiMCHashForAccount(userVerifElements.AccountInfo)
    IN  IF HashPanics(userVerifElements.AccountInfo.Balance)
        THEN <<InlineCheck("account hash", "panic: invalid balance")>>
        ELSE
        <<Check("bottom layer proof", verifyProof(bottomProof)),
          Check("mid layer proof", verifyProof(middleProof)),
          Check("top layer proof", verifyProof(topProof)),
          Check("account in bottom",
                verifyMerklePath(accountHash, info.UserMerklePosition,
                                 info.UserMerklePath, bottomProof.MerkleRoot)),
          Check("bottom in middle",
                verifyMerklePath(bottomProof.MerkleRootWithAssetSumHash,
                                 bottomProof.MerklePosition,
                                 bottomProof.MerklePath, middleProof.MerkleRoot)),
          Check("middle in top",
                verifyMerklePath(middleProof.MerkleRootWithAssetSumHash,
                                 middleProof.MerklePosition,
                                 middleProof.MerklePath, topProof.MerkleRoot)),
          Check("top asset sum", verifyTopLayerProofMatchesAssetSum(topProof))>>

VerifyUser(userVerifElements) == Outcome(VerifyUserChecks(userVerifElements))

\* The bundle as the caller holds it when VerifyUser is over.  The bundle
\* and its proofs are passed by value, so what callee and caller share are
\* the arrays behind the slices; the only statements of the verifier that
\* write memory are those of verifyMerklePath, reached as checks 4, 5 and
\* 6, each on what the calls before it left.
AfterVerifyUser(userVerifElements) ==
    LET log == RunChecks(VerifyUserChecks(userVerifElements))
        reached(k) == Len(log) >= k /\ ~log[1].inline
        accountInBottom(b) ==
            LET r == AfterVerifyMerklePath(
                         GoComputeMiMCHashForAccount(b.AccountInfo),
                         b.ProofInfo.UserMerklePosition,
                         b.ProofInfo.UserMerklePath,
                         b.ProofInfo.BottomProof.MerkleRoot)
            IN  [b EXCEPT !.ProofInfo.UserMerklePath = r.path,
                          !.ProofInfo.BottomProof.MerkleRoot = r.root]
        bottomInMiddle(b) ==
            LET r == AfterVerifyMerklePath(
                         b.ProofInfo.BottomProof.MerkleRootWithAssetSumHash,
                         b.ProofInfo.BottomProof.MerklePosition,
                         b.ProofInfo.BottomProof.MerklePath,
                         b.ProofInfo.MiddleProof.MerkleRoot)
            IN  [b EXCEPT !.ProofInfo.BottomProof.MerkleRootWithAssetSumHash = r.hash,
                          !.ProofInfo.BottomProof.MerklePath = r.path,
                          !.ProofInfo.MiddleProof.MerkleRoot = r.root]
        middleInTop(b) ==
            LET r == AfterVerifyMerklePath(
                         b.ProofInfo.MiddleProof.MerkleRootWithAssetSumHash,
                         b.ProofInfo.MiddleProof.MerklePosition,
                         b.ProofInfo.MiddleProof.MerklePath,
                         b.ProofInfo.TopProof.MerkleRoot)
            IN  [b EXCEPT !.ProofInfo.MiddleProof.MerkleRootWithAssetSumHash = r.hash,
                          !.ProofInfo.MiddleProof.MerklePath = r.path,
                          !.ProofInfo.TopProof.MerkleRoot = r.root]
        after4 == IF reached(4) THEN accountInBottom(userVerifElements)
                  ELSE userVerifElements
        after5 == IF reached(5) THEN bottomInMiddle(after4) ELSE after4
    IN  IF reached(6) THEN middleInTop(after5) ELSE after5

RECURSIVE Flatten(_)
Flatten(seqs) ==
    IF seqs = <<>> THEN <<>> ELSE Head(seqs) \o Flatten(Tail(seqs))

\* A plausible slip: the account is looked up among the leaves of its batch
\* instead of at its own index.
AccountIncludedAnywhere(bottomLevelProofs, i, j, account) ==
    IF HashPanics(account.Balance) THEN "panic: invalid balance"
    ELSE IF \/ i >= Len(bottomLevelProofs)
            \/ Len(At(bottomLevelProofs, i).MerkleNodes) <= TREE_DEPTH
            \/ Len(At(At(bottomLevelProofs, i).MerkleNodes, TREE_DEPTH)) <= j
    THEN "panic: index out of range"
    ELSE IF \A n \in 0..(Len(At(At(bottomLevelProofs, i).MerkleNodes, TREE_DEPTH)) - 1) :
                GoComputeMiMCHashForAccount(account)
                    # At(At(At(bottomLevelProofs, i).MerkleNodes, TREE_DEPTH), n)
    THEN "account not found in bottom level proofs"
    ELSE Ok

\* The account-inclusion test of verifyFull for account j of batch i (Go
\* indices).
AccountIncluded(bottomLevelProofs, i, j, account) ==
    IF HashPanics(account.Balance) THEN "panic: invalid balance"
    ELSE IF \/ i >= Len(bottomLevelProofs)
            \/ Len(At(bottomLevelProofs, i).MerkleNodes) <= TREE_DEPTH
            \/ Len(At(At(bottomLevelProofs, i).MerkleNodes, TREE_DEPTH)) <= j
    THEN "panic: index out of range"
    ELSE IF GoComputeMiMCHashForAccount(account)
                # At(At(At(bottomLevelProofs, i).MerkleNodes, TREE_DEPTH), j)
    THEN "account not found in bottom level proofs"
    ELSE Ok

BottomInMiddle(bottomProof, midLevelProofs, i) ==
    IF UpperLevelProofIndex(i) >= Len(midLevelProofs)
    THEN "panic: index out of range"
    ELSE verifyMerklePath(bottomProof.MerkleRootWithAssetSumHash,
                          bottomProof.MerklePosition, bottomProof.MerklePath,
                          At(midLevelProofs, UpperLevelProofIndex(i)).MerkleRoot)

verifyFullChecks(bottomLevelProofs, midLevelProofs, topLevelProof, accountBatches) ==
    Flatten([k \in 1..Len(bottomLevelProofs) |->
        <<Check("bottom merkle nodes",
                verifyBuild(bottomLevelProofs[k].MerkleNodes,
                            bottomLevelProofs[k].MerkleRoot, TREE_DEPTH)),
          Check("bottom circuit", verifyProof(bottomLevelProofs[k])),
          Check("bottom merkle path",
                BottomInMiddle(bottomLevelProofs[k], midLevelProofs, k - 1))>>])
    \o Flatten([k \in 1..Len(midLevelProofs) |->
        <<Check("mid circuit", verifyProof(midLevelProofs[k])),
          Check("mid merkle path",
                verifyMerklePath(midLevelProofs[k].MerkleRootWithAssetSumHash,
                                 midLevelProofs[k].MerklePosition,
                                 midLevelProofs[k].MerklePath,
                                 topLevelProof.MerkleRoot))>>])
    \o <<Check("top circuit", verifyProof(topLevelProof))>>
    \o Flatten([i \in 1..Len(accountBatches) |->
                  [j \in 1..Len(accountBatches[i]) |->
                      InlineCheck("account inclusion",
                          AccountIncluded(bottomLevelProofs, i - 1, j - 1,
                                          accountBatches[i][j]))]])
    \o <<Check("top asset sum", verifyTopLayerProofMatchesAssetSum(topLevelProof))>>

verifyFull(bottomLevelProofs, midLevelProofs, topLevelProof, accountBatches) ==
    Outcome(verifyFullChecks(bottomLevelProofs, midLevelProofs, topLevelProof,
                             accountBatches))

\* The arguments as the bottom loop of verifyFull leaves them, from bottom
\* proof k on: the third check of bottom proof k is its call of
\* verifyMerklePath, against the root of its middle proof, and it is
\* reached when the log holds it and the middle proof exists.
RECURSIVE AfterBottomPaths(_, _, _)
AfterBottomPaths(given, log, k) ==
    IF \/ k > Len(given.bottom)
       \/ Len(log) < 3 * k
       \/ UpperLevelProofIndex(k - 1) >= Len(given.mid)
    THEN given
    ELSE LET m == UpperLevelProofIndex(k - 1) + 1
             r == AfterVerifyMerklePath(
                      given.bottom[k].MerkleRootWithAssetSumHash,
                      given.bottom[k].MerklePosition,
                      given.bottom[k].MerklePath,
                      given.mid[m].MerkleRoot)
         IN  AfterBottomPaths(
                 [given EXCEPT !.bottom[k].MerkleRootWithAssetSumHash = r.hash,
                               !.bottom[k].MerklePath = r.path,
                               !.mid[m].MerkleRoot = r.root],
                 log, k + 1)

\* Likewise for the middle loop: the second check of middle proof k is its
\* call of verifyMerklePath, against the root of the top proof.
RECURSIVE AfterMiddlePaths(_, _, _)
AfterMiddlePaths(given, log, k) ==
    IF \/ k > Len(given.mid)
       \/ Len(log) < 3 * Len(given.bottom) + 2 * k
    THEN given
    ELSE LET r == AfterVerifyMerklePath(
                      given.mid[k].MerkleRootWithAssetSumHash,
                      given.mid[k].MerklePosition,
                      given.mid[k].MerklePath,
                      given.top.MerkleRoot)
         IN  AfterMiddlePaths(
                 [given EXCEPT !.mid[k].MerkleRootWithAssetSumHash = r.hash,
                               !.mid[k].MerklePath = r.path,
                               !.top.MerkleRoot = r.root],
                 log, k + 1)

\* The arguments as the caller holds them when verifyFull is over.  The
\* loops range over copies of the proofs and accounts, so what is shared
\* are the arrays behind the slices, and the statements that write memory
\* are those of the calls of verifyMerklePath, in the order of the loops.
AfterVerifyFull(bottomLevelProofs, midLevelProofs, topLevelProof, accountBatches) ==
    LET log == RunChecks(verifyFullChecks(bottomLevelProofs, midLevelProofs,
                                          topLevelProof, accountBatches))
        given == [bottom |-> bottomLevelProofs, mid |-> midLevelProofs,
                  top |-> topLevelProof, accounts |-> accountBatches]
    IN  AfterMiddlePaths(AfterBottomPaths(given, log, 1), log, 1)

----------------------------------------------------------------------------
(* State.                                                                  *)
(*   secret             the batches in out/secret (ProofElements)          *)
(*   pc, panicMsg       where Prove is, and the panic that ended it        *)
(*   bottomLevelProofs, midLevelProofs, topLevelProof                      *)
(*                      Prove's in-memory proofs (topLevelProof optional)  *)
(*   cachedProofs       the package-level map from batch size to keys      *)
(*   compiled           the batch sizes compiled and set up so far, in     *)
(*                      order                                              *)
(*   public             the documents in out/public                        *)
(*   vuCase .. vuResult one VerifyUser call: what was submitted, the       *)
(*                      bundle as the caller holds it when the call is     *)
(*                      over, the checks executed, the outcome             *)
(*   vfCase .. vfResult one verifyFull call, likewise                      *)
(*   m...               the Merkle primitives on a bare leaf list          *)
(*   wLen .. fatal      generateProof called from several threads: each    *)
(*                      call's batch size, position, lookup result and     *)
(*                      keys, and whether the runtime stopped the process  *)
(*   run, firstRun      Prove called again on the same out/secret: the     *)
(*                      number of the call, and what the first call wrote  *)
(*   cWitness, cResult  the circuit on one full assignment, and whether    *)
(*                      its constraints accepted it                        *)

VARIABLES secret, pc, panicMsg, bottomLevelProofs, midLevelProofs,
          topLevelProof, cachedProofs, compiled, public,
          vuCase, vuInput, vuLog, vuResult, vfCase, vfInput, vfLog, vfResult,
          mStage, mLeaves, mNodes, mRoot, mPos, mPath, mResult,
          wLen, wPc, wMiss, wPartial, fatal,
          run, firstRun, cWitness, cResult

proverVars == <<secret, pc, panicMsg, bottomLevelProofs, midLevelProofs,
                topLevelProof, cachedProofs, compiled, public>>

verifierVars == <<vuCase, vuInput, vuLog, vuResult, vfCase, vfInput, vfLog,
                  vfResult>>

merkleVars == <<mStage, mLeaves, mNodes, mRoot, mPos, mPath, mResult>>

parVars == <<wLen, wPc, wMiss, wPartial, fatal>>

rerunVars == <<run, firstRun>>

circuitVars == <<cWitness, cResult>>

vars == <<proverVars, verifierVars, merkleVars, parVars, rerunVars,
          circuitVars>>

----------------------------------------------------------------------------
(* Inputs *)

BaseSeeds == {0}

\* Batches in which every balance component is the same amount.
UniformData(batchCount, countPerBatch, amount) ==
    [i \in 1..batchCount |->
        LET accounts == [j \in 1..countPerBatch |->
                            [UserId  |-> TestUserId(i - 1, j),
                             Balance |-> [k \in 1..GetNumberOfAssets |-> amount]]]
        IN  [Accounts |-> accounts,
             AssetSum |-> Some(SumGoAccountBalances(accounts)),
             MerkleRoot |-> Nil,
             MerkleRootWithAssetSumHash |-> Nil]]

SecretInputs ==
    {GenerateData(batchCount, countPerBatch, baseSeed) :
        batchCount \in 1..MaxBatchCount,
        countPerBatch \in 1..MaxCountPerBatch,
        baseSeed \in BaseSeeds}
    \cup
    {UniformData(batchCount, countPerBatch, PowOfTwo(RANGE_CHECK_BITS - 1)) :
        batchCount \in 1..MaxBatchCount,
        countPerBatch \in 1..MaxCountPerBatch}

ProverInit ==
    /\ secret \in SecretInputs
    /\ pc = "bottom"
    /\ panicMsg = NoPanic
    /\ bottomLevelProofs = <<>>
    /\ midLevelProofs = <<>>
    /\ topLevelProof = Nil
    /\ cachedProofs = <<>>
    /\ compiled = <<>>
    /\ public = [bottom |-> <<>>, mid |-> <<>>, top |-> <<>>]

VerifierIdle ==
    /\ vuCase = Nil
    /\ vuInput = Nil
    /\ vuLog = <<>>
    /\ vuResult = "none"
    /\ vfCase = "none"
    /\ vfInput = Nil
    /\ vfLog = <<>>
    /\ vfResult = "none"

ParIdle ==
    /\ wLen = <<>>
    /\ wPc = <<>>
    /\ wMiss = <<>>
    /\ wPartial = <<>>
    /\ fatal = FALSE

RerunIdle ==
    /\ run = 1
    /\ firstRun = Nil

CircuitIdle ==
    /\ cWitness = Nil
    /\ cResult = "none"

MerkleIdle ==
    /\ mStage = "idle"
    /\ mLeaves = <<>>
    /\ mNodes = <<>>
    /\ mRoot = FInt(0)
    /\ mPos = 0
    /\ mPath = <<>>
    /\ mResult = "none"

----------------------------------------------------------------------------
(* Prove, one call of generateProof / generateNextLevelProofs /            *)
(* setLowerLevelProofsMerklePaths / writeProofsToFiles per step.           *)

NextId == Len(compiled) + 1

CompiledAfter(elements) ==
    IF Compiles(elements, cachedProofs) /\ ~CompileFails(Len(elements.Accounts))
    THEN Append(compiled, Len(elements.Accounts))
    ELSE compiled

Panic(msg) ==
    /\ pc' = "panic"
    /\ panicMsg' = msg

GenerateBottom ==
    /\ pc = "bottom"
    /\ LET elements == secret[Len(bottomLevelProofs) + 1]
           panic == generateProofPanic(elements, cachedProofs, NextId)
       IN  /\ cachedProofs' = CacheAfter(elements, cachedProofs, NextId)
           /\ compiled' = CompiledAfter(elements)
           /\ IF panic # NoPanic
              THEN Panic(panic) /\ UNCHANGED bottomLevelProofs
              ELSE /\ bottomLevelProofs' =
                        Append(bottomLevelProofs,
                               generateProof(elements, cachedProofs, NextId))
                   /\ pc' = IF Len(bottomLevelProofs) + 1 = Len(secret)
                            THEN "middle" ELSE "bottom"
                   /\ UNCHANGED panicMsg
    /\ UNCHANGED <<secret, midLevelProofs, topLevelProof, public>>
    /\ UNCHANGED <<verifierVars, merkleVars, parVars, rerunVars, circuitVars>>

GenerateMiddle ==
    /\ pc = "middle"
    /\ LET batches == batchProofs(bottomLevelProofs, ACCOUNTS_PER_BATCH)
           batch == batches[Len(midLevelProofs) + 1]
           panic == generateNextLevelProofsPanic(batch, cachedProofs, NextId)
       IN  IF panic # NoPanic
           THEN /\ Panic(panic)
                /\ IF NextLevelPanic(batch) # NoPanic
                   THEN UNCHANGED <<cachedProofs, compiled>>
                   ELSE /\ cachedProofs' = CacheAfter(NextLevelElements(batch),
                                                      cachedProofs, NextId)
                        /\ compiled' = CompiledAfter(NextLevelElements(batch))
                /\ UNCHANGED midLevelProofs
           ELSE /\ cachedProofs' = CacheAfter(NextLevelElements(batch),
                                              cachedProofs, NextId)
                /\ compiled' = CompiledAfter(NextLevelElements(batch))
                /\ midLevelProofs' =
                     Append(midLevelProofs,
                            generateNextLevelProofs(batch, cachedProofs, NextId))
                /\ pc' = IF Len(midLevelProofs) + 1 = Len(batches)
                         THEN "top" ELSE "middle"
                /\ UNCHANGED panicMsg
    /\ UNCHANGED <<secret, bottomLevelProofs, topLevelProof, public>>
    /\ UNCHANGED <<verifierVars, merkleVars, parVars, rerunVars, circuitVars>>

GenerateTop ==
    /\ pc = "top"
    /\ LET panic == generateNextLevelProofsPanic(midLevelProofs, cachedProofs, NextId)
       IN  IF panic # NoPanic
           THEN /\ Panic(panic)
                /\ IF NextLevelPanic(midLevelProofs) # NoPanic
                   THEN UNCHANGED <<cachedProofs, compiled>>
                   ELSE /\ cachedProofs' =
                             CacheAfter(NextLevelElements(midLevelProofs),
                                        cachedProofs, NextId)
                        /\ compiled' =
                             CompiledAfter(NextLevelElements(midLevelProofs))
                /\ UNCHANGED topLevelProof
           ELSE /\ cachedProofs' = CacheAfter(NextLevelElements(midLevelProofs),
                                              cachedProofs, NextId)
                /\ compiled' = CompiledAfter(NextLevelElements(midLevelProofs))
                /\ topLevelProof' =
                     Some(generateNextLevelProofs(midLevelProofs, cachedProofs,
                                                  NextId))
                /\ pc' = "bottomPaths"
                /\ UNCHANGED panicMsg
    /\ UNCHANGED <<secret, bottomLevelProofs, midLevelProofs, public>>
    /\ UNCHANGED <<verifierVars, merkleVars, parVars, rerunVars, circuitVars>>

SetBottomPaths ==
    /\ pc = "bottomPaths"
    /\ IF SetPathsPanics(bottomLevelProofs, midLevelProofs)
       THEN /\ Panic("not enough upperLevelProofs given for lowerLevelProofs")
            /\ UNCHANGED bottomLevelProofs
       ELSE /\ bottomLevelProofs' =
                 setLowerLevelProofsMerklePaths(bottomLevelProofs, midLevelProofs)
            /\ pc' = "middlePaths"
            /\ UNCHANGED panicMsg
    /\ UNCHANGED <<secret, midLevelProofs, topLevelProof, cachedProofs,
                   compiled, public>>
    /\ UNCHANGED <<verifierVars, merkleVars, parVars, rerunVars, circuitVars>>

SetMiddlePaths ==
    /\ pc = "middlePaths"
    /\ IF SetPathsPanics(midLevelProofs, topLevelProof)
       THEN /\ Panic("not enough upperLevelProofs given for lowerLevelProofs")
            /\ UNCHANGED midLevelProofs
       ELSE /\ midLevelProofs' =
                 setLowerLevelProofsMerklePaths(midLevelProofs, topLevelProof)
            /\ pc' = "writeBottom"
            /\ UNCHANGED panicMsg
    /\ UNCHANGED <<secret, bottomLevelProofs, topLevelProof, cachedProofs,
                   compiled, public>>
    /\ UNCHANGED <<verifierVars, merkleVars, parVars, rerunVars, circuitVars>>

\* A plausible slip: the bottom proofs are also written as soon as the top
\* proof exists, before the paths are attached.
WriteBottomEarly ==
    /\ pc \in {"bottomPaths", "writeBottom"}
    /\ public' = [public EXCEPT
                    !.bottom = writeProofsToFiles(bottomLevelProofs, FALSE)]
    /\ pc' = IF pc = "writeBottom" THEN "writeMiddle" ELSE pc
    /\ UNCHANGED <<secret, panicMsg, bottomLevelProofs, midLevelProofs,
                   topLevelProof, cachedProofs, compiled>>
    /\ UNCHANGED <<verifierVars, merkleVars, parVars, rerunVars, circuitVars>>

WriteBottom ==
    /\ pc = "writeBottom"
    /\ public' = [public EXCEPT
                    !.bottom = writeProofsToFiles(bottomLevelProofs, FALSE)]
    /\ pc' = "writeMiddle"
    /\ UNCHANGED <<secret, panicMsg, bottomLevelProofs, midLevelProofs,
                   topLevelProof, cachedProofs, compiled>>
    /\ UNCHANGED <<verifierVars, merkleVars, parVars, rerunVars, circuitVars>>

WriteMiddle ==
    /\ pc = "writeMiddle"
    /\ public' = [public EXCEPT
                    !.mid = writeProofsToFiles(midLevelProofs, FALSE)]
    /\ pc' = "writeTop"
    /\ UNCHANGED <<secret, panicMsg, bottomLevelProofs, midLevelProofs,
                   topLevelProof, cachedProofs, compiled>>
    /\ UNCHANGED <<verifierVars, merkleVars, parVars, rerunVars, circuitVars>>

WriteTop ==
    /\ pc = "writeTop"
    /\ public' = [public EXCEPT
                    !.top = writeProofsToFiles(topLevelProof, TRUE)]
    /\ pc' = "done"
    /\ UNCHANGED <<secret, panicMsg, bottomLevelProofs, midLevelProofs,
                   topLevelProof, cachedProofs, compiled>>
    /\ UNCHANGED <<verifierVars, merkleVars, parVars, rerunVars, circuitVars>>

Prove ==
    \/ GenerateBottom
    \/ GenerateMiddle
    \/ GenerateTop
    \/ SetBottomPaths
    \/ SetMiddlePaths
    \/ WriteBottom
    \/ WriteMiddle
    \/ WriteTop

----------------------------------------------------------------------------
(* What a holder is handed: the account, its position and path in the      *)
(* bottom tree, and the three persisted proofs above it (the middle proof  *)
(* of batch b is number b / ACCOUNTS_PER_BATCH).                           *)

ForUser(proof) == [proof EXCEPT !.MerkleNodes = Nil]

UserBundle(files, b, account, position, path) ==
    [AccountInfo |-> account,
     ProofInfo |->
        [UserMerklePath |-> path,
         UserMerklePosition |-> position,
         BottomProof |-> ForUser(At(files.bottom, b)),
         MiddleProof |-> ForUser(At(files.mid, UpperLevelProofIndex(b))),
         TopProof |-> ForUser(files.top[1])]]

\* A custodian that understates every sum as zero and proves each layer
\* under keys set up for a constraint system without constraints.
ZeroSum == ConstructGoBalance

RogueProof(accounts) ==
    LET root == GoComputeMerkleRootFromAccounts(accounts)
        w == [Accounts |-> accounts,
              AssetSum |-> ZeroSum,
              MerkleRoot |-> root,
              MerkleRootWithAssetSumHash |->
                  GoComputeMiMCHashForAccount(
                      [UserId |-> root, Balance |-> ZeroSum])]
        partial == Setup(UnconstrainedFor(Len(accounts)), 0)
    IN  [Proof |-> Some(Groth16Prove(partial, w)),
         VerificationKey |-> Some(partial.vk),
         MerkleRoot |-> w.MerkleRoot,
         MerkleRootWithAssetSumHash |-> w.MerkleRootWithAssetSumHash,
         MerklePath |-> Nil,
         MerklePosition |-> 0,
         MerkleNodes |-> GoComputeMerkleTreeNodesFromAccounts(accounts),
         AssetSum |-> Some(ZeroSum)]

RogueNextLevel(proofs) ==
    RogueProof([i \in 1..Len(proofs) |-> ConvertProofToGoAccount(proofs[i])])

RogueBottoms(batches) ==
    [i \in 1..Len(batches) |-> RogueProof(batches[i].Accounts)]

RogueMiddles(bottoms) ==
    LET chunks == batchProofs(bottoms, ACCOUNTS_PER_BATCH)
    IN  [k \in 1..Len(chunks) |-> RogueNextLevel(chunks[k])]

RogueFiles(batches) ==
    CHOOSE files \in
        {[bottom |-> writeProofsToFiles(
                         setLowerLevelProofsMerklePaths(bottoms, mids), FALSE),
          mid |-> writeProofsToFiles(
                         setLowerLevelProofsMerklePaths(mids, <<top>>), FALSE),
          top |-> <<top>>] :
            bottoms \in {RogueBottoms(batches)},
            mids \in {RogueMiddles(RogueBottoms(batches))},
            top \in {RogueNextLevel(RogueMiddles(RogueBottoms(batches)))}} : TRUE

\* A second, independent run of Prove, in another process, over batches of
\* the same sizes.  Its keys come from its own setups, one per batch size.
\* Its input is the first run's with some user ids replaced: those of every
\* batch, of batch b only, of b's neighbour under the same middle proof, of
\* a batch under another middle proof, or of no batch at all.
SpliceKinds ==
    {"spliceAll", "spliceOwn", "spliceSibling", "spliceFar", "spliceSame"}

OtherUser(account) == [account EXCEPT !.UserId = FInt(@.int + 1000)]

OtherBatch(elements) ==
    [Accounts |-> [j \in 1..Len(elements.Accounts) |->
                      OtherUser(elements.Accounts[j])],
     AssetSum |-> elements.AssetSum,
     MerkleRoot |-> Nil,
     MerkleRootWithAssetSumHash |-> Nil]

\* The Go index of the batch that differs, or -1 if there is none.
SiblingOf(b, count) ==
    LET first == UpperLevelProofIndex(b) * ACCOUNTS_PER_BATCH
        other == IF b = first THEN b + 1 ELSE first
    IN  IF other < count THEN other ELSE -1

FarFrom(b, count) ==
    LET other == IF UpperLevelProofIndex(b) = 0 THEN count - 1 ELSE 0
    IN  IF UpperLevelProofIndex(other) # UpperLevelProofIndex(b)
        THEN other ELSE -1

Replaced(kind, b, count) ==
    CASE kind = "spliceAll" -> 0..(count - 1)
      [] kind = "spliceOwn" -> {b}
      [] kind = "spliceSibling" -> {SiblingOf(b, count)} \ {-1}
      [] kind = "spliceFar" -> {FarFrom(b, count)} \ {-1}
      [] OTHER -> {}

SpliceApplies(kind, b) ==
    kind \in SpliceKinds =>
        (kind = "spliceSame" \/ Replaced(kind, b, Len(secret)) # {})

OtherData(batches, kind, b) ==
    [i \in 1..Len(batches) |->
        IF (i - 1) \in Replaced(kind, b, Len(batches))
        THEN OtherBatch(batches[i]) ELSE batches[i]]

OtherRunKeys ==
    [n \in 1..ACCOUNTS_PER_BATCH |-> CompileAndSetup(n, 1000 + n)]

\* Prove in the other process, layer by layer (each layer is computed once).
OtherRunWritten(bottoms, mids, top) ==
    [bottom |-> writeProofsToFiles(
                    setLowerLevelProofsMerklePaths(bottoms, mids), FALSE),
     mid |-> writeProofsToFiles(
                    setLowerLevelProofsMerklePaths(mids, <<top>>), FALSE),
     top |-> writeProofsToFiles(<<top>>, TRUE)]

OtherRunTop(bottoms, mids) ==
    CHOOSE files \in
        {OtherRunWritten(bottoms, mids, top) :
            top \in {generateNextLevelProofs(mids, OtherRunKeys, 0)}} : TRUE

OtherRunMiddles(bottoms) ==
    CHOOSE files \in
        {OtherRunTop(bottoms, mids) :
            mids \in {[k \in 1..Len(batchProofs(bottoms, ACCOUNTS_PER_BATCH)) |->
                         generateNextLevelProofs(
                             batchProofs(bottoms, ACCOUNTS_PER_BATCH)[k],
                             OtherRunKeys, 0)]}} : TRUE

OtherRunFiles(batches) ==
    CHOOSE files \in
        {OtherRunMiddles(bottoms) :
            bottoms \in {[i \in 1..Len(batches) |->
                            generateProof(batches[i], OtherRunKeys, 0)]}} : TRUE

\* The bundle with its middle and top proofs taken from the other run.
Splice(bundle, others, b) ==
    [bundle EXCEPT
        !.ProofInfo.MiddleProof = ForUser(At(others.mid, UpperLevelProofIndex(b))),
        !.ProofInfo.TopProof = ForUser(others.top[1])]

\* The ways a bundle's proofs are altered before it is submitted.
ProofKinds ==
    {"genuine", "noBottomProof", "badMiddle", "noTopKey", "bottomPosition",
     "middlePath", "topSum", "noTopSum", "rogue"} \cup SpliceKinds

AlterProofs(bundle, kind) ==
    LET info == bundle.ProofInfo
    IN  CASE kind = "noBottomProof" ->
                [bundle EXCEPT !.ProofInfo.BottomProof.Proof = Nil]
          [] kind = "badMiddle" ->
                [bundle EXCEPT !.ProofInfo.MiddleProof.Proof = info.TopProof.Proof]
          [] kind = "noTopKey" ->
                [bundle EXCEPT !.ProofInfo.TopProof.VerificationKey = Nil]
          [] kind = "bottomPosition" ->
                [bundle EXCEPT !.ProofInfo.BottomProof.MerklePosition = @ + 1]
          [] kind = "middlePath" ->
                [bundle EXCEPT !.ProofInfo.MiddleProof.MerklePath = Tail(@)]
          [] kind = "topSum" ->
                [bundle EXCEPT !.ProofInfo.TopProof.AssetSum =
                    Some([@[1] EXCEPT ![1] = @ + 1])]
          [] kind = "noTopSum" ->
                [bundle EXCEPT !.ProofInfo.TopProof.AssetSum = Nil]
          [] OTHER -> bundle

\* The accounts a holder may submit against batch b (Go index): the
\* accounts of the batch, the first account of the next batch, an account
\* of the batch with one more unit of the first asset, and one with a
\* negative balance.
CandidateAccounts(b) ==
    LET own == At(secret, b).Accounts
        next == At(secret, (b + 1) % Len(secret)).Accounts
    IN  {own[j] : j \in 1..Len(own)}
        \cup {next[1]}
        \cup {[own[1] EXCEPT !.Balance[1] = @ + 1]}
        \cup {[own[1] EXCEPT !.Balance[1] = -1]}
        \cup {[own[1] EXCEPT !.Balance[1] = PowOfTwo(ModBytes)]}
        \cup {[own[1] EXCEPT !.Balance[1] = FieldModulus + 1]}

\* Account is the one the prover placed at position (Go index) of batch b.
Committed(b, account, position) ==
    /\ position \in 0..(Len(At(secret, b).Accounts) - 1)
    /\ account = At(At(secret, b).Accounts, position)

\* Path choice c >= 0 is the path of position c in the persisted nodes;
\* c = -1 is a path one sibling short.
PathChoice(nodes, c) ==
    IF c < 0 THEN Tail(ComputeMerklePath(0, nodes))
    ELSE ComputeMerklePath(c, nodes)

\* What is submitted: the genuine bundle of a committed account under any
\* alteration of the proofs (a splice for the first account of the first
\* and of the last batch), or, with the persisted proofs untouched, any
\* account against any position with the path of that position, the path
\* of the account or a short path.
Submitted(b, account, position, c, kind) ==
    \/ /\ Committed(b, account, position)
       /\ c = position
       /\ kind \in SpliceKinds =>
              /\ position = 0
              /\ b \in {0, Len(secret) - 1}
              /\ SpliceApplies(kind, b)
    \/ /\ kind = "genuine"
       /\ b \in {0, Len(secret) - 1}
       /\ c \in {-1, position} \/ Committed(b, account, c)

SubmittedBundle(b, account, position, c, kind) ==
    LET files == IF kind = "rogue" THEN RogueFiles(secret) ELSE public
        path == PathChoice(At(files.bottom, b).MerkleNodes, c)
        bundle == UserBundle(files, b, account, position, path)
    IN  IF kind \in SpliceKinds
        THEN Splice(bundle, OtherRunFiles(OtherData(secret, kind, b)), b)
        ELSE AlterProofs(bundle, kind)

VerifyUserCall ==
    /\ pc = "done"
    /\ vuResult = "none"
    /\ vfResult = "none"
    /\ \E b \in 0..(Len(secret) - 1), kind \in ProofKinds :
       \E account \in CandidateAccounts(b),
          position \in (-1)..PowOfTwo(TREE_DEPTH),
          c \in (-1)..(PowOfTwo(TREE_DEPTH) - 1) :
          /\ Submitted(b, account, position, c, kind)
          /\ \E bundle \in {SubmittedBundle(b, account, position, c, kind)} :
                /\ vuCase' = Some([batch |-> b, account |-> account,
                                   position |-> position, path |-> c,
                                   kind |-> kind])
                /\ vuInput' = Some(AfterVerifyUser(bundle))
                /\ vuLog' = RunChecks(VerifyUserChecks(bundle))
                /\ vuResult' = LogOutcome(vuLog')
    /\ UNCHANGED <<vfCase, vfInput, vfLog, vfResult>>
    /\ UNCHANGED <<proverVars, merkleVars, parVars, rerunVars, circuitVars>>

\* The ways the inputs of verifyFull are altered before the call.
FullKinds ==
    {"none", "swapAccounts", "alterAccount", "longAccount", "extraAccount",
     "dropAccount",
     "badNodes", "wideNodes", "badMidNodes", "badTopNodes", "noNodes",
     "badProof",
     "topSum", "noMiddle"}

Reverse(s) == [k \in 1..Len(s) |-> s[Len(s) + 1 - k]]

FullInput(kind) ==
    LET accounts == [i \in 1..Len(secret) |-> secret[i].Accounts]
        given == [bottom |-> public.bottom, mid |-> public.mid,
                  top |-> public.top[1], accounts |-> accounts]
    IN  CASE kind = "swapAccounts" ->
                [given EXCEPT !.accounts =
                    IF Len(accounts[1]) > 1
                    THEN [accounts EXCEPT ![1] = Reverse(@)]
                    ELSE Reverse(accounts)]
          [] kind = "alterAccount" ->
                [given EXCEPT !.accounts[Len(accounts)][1].Balance[1] = @ + 1]
          [] kind = "longAccount" ->
                [given EXCEPT !.accounts[Len(accounts)][1].Balance[1] =
                    PowOfTwo(ModBytes)]
          [] kind = "extraAccount" ->
                [given EXCEPT !.accounts[Len(accounts)] =
                    Append(@, OtherUser(@[1]))]
          [] kind = "dropAccount" ->
                [given EXCEPT !.accounts[Len(accounts)] =
                    SubSeq(@, 1, Len(@) - 1)]
          [] kind = "badNodes" ->
                [given EXCEPT !.bottom[1].MerkleNodes[TREE_DEPTH + 1][1] = FInt(0)]
          [] kind = "wideNodes" ->
                [given EXCEPT !.bottom[1].MerkleNodes =
                    [@ EXCEPT ![TREE_DEPTH + 1][1] = FInt(0),
                              ![1] = Append(@, FInt(0))]]
          [] kind = "badMidNodes" ->
                [given EXCEPT !.mid[1].MerkleNodes[TREE_DEPTH + 1][1] = FInt(0)]
          [] kind = "badTopNodes" ->
                [given EXCEPT !.top.MerkleNodes[TREE_DEPTH + 1][1] = FInt(0)]
          [] kind = "noNodes" ->
                [given EXCEPT !.bottom[1].MerkleNodes = Nil]
          [] kind = "badProof" ->
                [given EXCEPT !.bottom[Len(public.bottom)].Proof = Nil]
          [] kind = "topSum" ->
                [given EXCEPT !.top.AssetSum = Some([@[1] EXCEPT ![1] = @ + 1])]
          [] kind = "noMiddle" ->
                [given EXCEPT !.mid = <<>>]
          [] OTHER -> given

VerifyFullCall ==
    /\ pc = "done"
    /\ vuResult = "none"
    /\ vfResult = "none"
    /\ \E kind \in FullKinds :
       \E in \in {FullInput(kind)} :
          /\ vfCase' = kind
          /\ vfInput' = Some(AfterVerifyFull(in.bottom, in.mid, in.top,
                                             in.accounts))
          /\ vfLog' = RunChecks(verifyFullChecks(in.bottom, in.mid, in.top,
                                                in.accounts))
          /\ vfResult' = LogOutcome(vfLog')
    /\ UNCHANGED <<vuCase, vuInput, vuLog, vuResult>>
    /\ UNCHANGED <<proverVars, merkleVars, parVars, rerunVars, circuitVars>>

Init ==
    /\ ProverInit
    /\ VerifierIdle
    /\ MerkleIdle
    /\ ParIdle
    /\ RerunIdle
    /\ CircuitIdle

Next ==
    \/ Prove
    \/ VerifyUserCall
    \/ VerifyFullCall

Spec == Init /\ [][Next]_vars

----------------------------------------------------------------------------
(* The Merkle primitives applied to bounded leaf lists and to the hashes   *)
(* of generated account batches.                                           *)

LeafValues == {FInt(1), FInt(2)}

\* Account batches of every size up to the width of the tree.
LeafBatches ==
    {GenerateTestData(count, seed).Accounts :
        count \in 0..PowOfTwo(TREE_DEPTH), seed \in {0, 1}}

RECURSIVE SeqsUpTo(_, _)
SeqsUpTo(S, n) ==
    IF n = 0 THEN {<<>>}
    ELSE LET shorter == SeqsUpTo(S, n - 1)
         IN  shorter \cup {Append(s, x) : s \in {t \in shorter : Len(t) = n - 1}, x \in S}

ProverIdle ==
    /\ secret = <<>>
    /\ pc = "idle"
    /\ panicMsg = NoPanic
    /\ bottomLevelProofs = <<>>
    /\ midLevelProofs = <<>>
    /\ topLevelProof = Nil
    /\ cachedProofs = <<>>
    /\ compiled = <<>>
    /\ public = [bottom |-> <<>>, mid |-> <<>>, top |-> <<>>]

MerkleInit ==
    /\ mStage = "input"
    /\ mLeaves \in SeqsUpTo(LeafValues, PowOfTwo(TREE_DEPTH))
                  \cup {GoComputeMiMCHashesForAccounts(accounts) :
                           accounts \in LeafBatches}
    /\ mNodes = <<>>
    /\ mRoot = FInt(0)
    /\ mPos = 0
    /\ mPath = <<>>
    /\ mResult = "none"
    /\ ProverIdle
    /\ VerifierIdle
    /\ ParIdle
    /\ RerunIdle
    /\ CircuitIdle

MerkleBuild ==
    /\ mStage = "input"
    /\ ~TooManyLeaves(mLeaves, TREE_DEPTH)
    /\ mNodes' = goComputeMerkleTreeNodesFromHashes(mLeaves, TREE_DEPTH)
    /\ mRoot' = GoComputeMerkleRootFromHashes(mLeaves)
    /\ mStage' = "built"
    /\ UNCHANGED <<mLeaves, mPos, mPath, mResult>>
    /\ UNCHANGED <<proverVars, verifierVars, parVars, rerunVars, circuitVars>>

MerklePath(position) ==
    /\ mStage = "built"
    /\ ~MerklePathPanics(position, mNodes)
    /\ mPos' = position
    /\ mPath' = ComputeMerklePath(position, mNodes)
    /\ mStage' = "pathed"
    /\ UNCHANGED <<mLeaves, mNodes, mRoot, mResult>>
    /\ UNCHANGED <<proverVars, verifierVars, parVars, rerunVars, circuitVars>>

MerkleVerify ==
    /\ mStage = "pathed"
    /\ mResult' = verifyMerklePath(At(PadLeaves(mLeaves, TREE_DEPTH), mPos),
                                   mPos, mPath, mRoot)
    /\ mStage' = "verified"
    /\ UNCHANGED <<mLeaves, mNodes, mRoot, mPos, mPath>>
    /\ UNCHANGED <<proverVars, verifierVars, parVars, rerunVars, circuitVars>>

\* verifyMerklePath on what a caller may hand in: the node skip levels
\* above the leaf, the path from there on, one hash longer if extra, and
\* any position.
MerkleVerifyGiven(skip, extra, position) ==
    /\ mStage = "pathed"
    /\ LET hash == At(At(mNodes, TREE_DEPTH - skip), mPos \div PowOfTwo(skip))
           path == SubSeq(mPath, skip + 1, Len(mPath))
                       \o (IF extra THEN <<FInt(0)>> ELSE <<>>)
       IN  /\ mPos' = position
           /\ mPath' = path
           /\ mResult' = verifyMerklePath(hash, position, path, mRoot)
    /\ mStage' = "given"
    /\ UNCHANGED <<mLeaves, mNodes, mRoot>>
    /\ UNCHANGED <<proverVars, verifierVars, parVars, rerunVars, circuitVars>>

MerkleNext ==
    \/ MerkleBuild
    \/ \E position \in 0..(PowOfTwo(TREE_DEPTH) - 1) : MerklePath(position)
    \/ MerkleVerify
    \/ \E skip \in 0..1, extra \in BOOLEAN,
          position \in (-1)..PowOfTwo(TREE_DEPTH) :
              MerkleVerifyGiven(skip, extra, position)

SpecMerkle == MerkleInit /\ [][MerkleNext]_vars

----------------------------------------------------------------------------
(* generateProof called from several threads of one process.  Only the     *)
(* statements that touch cachedProofs are distinguished: the lookup, the   *)
(* compile and setup on a miss, the map assignment (which takes time: it   *)
(* begins and ends) and the read before proving.  cachedProofs is a plain  *)
(* map without a lock, so an access that overlaps another thread's         *)
(* assignment is a data race: the runtime may stop the process, or the     *)
(* access goes through, a lookup of the key being assigned seeing either   *)
(* answer.                                                                 *)

Workers == 1..NumWorkers

ParInit ==
    /\ wLen \in [Workers -> 1..MaxCountPerBatch]
    /\ wPc = [w \in Workers |-> "lookup"]
    /\ wMiss = [w \in Workers |-> FALSE]
    /\ wPartial = [w \in Workers |-> Nil]
    /\ fatal = FALSE
    /\ ProverIdle
    /\ VerifierIdle
    /\ MerkleIdle
    /\ RerunIdle
    /\ CircuitIdle

MapBusy(w) == \E v \in Workers \ {w} : wPc[v] = "inserting"

BusyWith(w, proofLen) ==
    \E v \in Workers \ {w} : wPc[v] = "inserting" /\ wLen[v] = proofLen

Lookup(w) ==
    /\ ~fatal
    /\ wPc[w] = "lookup"
    /\ \E miss \in BOOLEAN :
          /\ \/ miss = ~CacheHit(cachedProofs, wLen[w])
             \/ BusyWith(w, wLen[w])
          /\ wMiss' = [wMiss EXCEPT ![w] = miss]
          /\ wPc' = [wPc EXCEPT ![w] = IF miss THEN "compile" ELSE "prove"]
    /\ UNCHANGED <<wLen, wPartial, fatal>>
    /\ UNCHANGED <<proverVars, verifierVars, merkleVars, rerunVars, circuitVars>>

CompileSetup(w) ==
    /\ ~fatal
    /\ wPc[w] = "compile"
    /\ compiled' = Append(compiled, wLen[w])
    /\ wPartial' = [wPartial EXCEPT ![w] = Some(CompileAndSetup(wLen[w], NextId))]
    /\ wPc' = [wPc EXCEPT ![w] = "insert"]
    /\ UNCHANGED <<wLen, wMiss, fatal>>
    /\ UNCHANGED <<secret, pc, panicMsg, bottomLevelProofs, midLevelProofs,
                   topLevelProof, cachedProofs, public>>
    /\ UNCHANGED <<verifierVars, merkleVars, rerunVars, circuitVars>>

InsertBegin(w) ==
    /\ ~fatal
    /\ wPc[w] = "insert"
    /\ wPc' = [wPc EXCEPT ![w] = "inserting"]
    /\ UNCHANGED <<wLen, wMiss, wPartial, fatal>>
    /\ UNCHANGED <<proverVars, verifierVars, merkleVars, rerunVars, circuitVars>>

InsertEnd(w) ==
    /\ ~fatal
    /\ wPc[w] = "inserting"
    /\ cachedProofs' = CacheInsert(cachedProofs, wLen[w], wPartial[w][1])
    /\ wPc' = [wPc EXCEPT ![w] = "prove"]
    /\ UNCHANGED <<wLen, wMiss, wPartial, fatal>>
    /\ UNCHANGED <<secret, pc, panicMsg, bottomLevelProofs, midLevelProofs,
                   topLevelProof, compiled, public>>
    /\ UNCHANGED <<verifierVars, merkleVars, rerunVars, circuitVars>>

\* The read of the cached keys and the proof made with them; a read that
\* finds no entry yields empty keys and the call panics.
ReadAndProve(w) ==
    /\ ~fatal
    /\ wPc[w] = "prove"
    /\ wPc' = [wPc EXCEPT ![w] =
                  IF CacheHit(cachedProofs, wLen[w]) THEN "done" ELSE "panic"]
    /\ UNCHANGED <<wLen, wMiss, wPartial, fatal>>
    /\ UNCHANGED <<proverVars, verifierVars, merkleVars, rerunVars, circuitVars>>

\* The runtime detects an access overlapping another thread's assignment.
RuntimeThrow(w) ==
    /\ ~fatal
    /\ wPc[w] \in {"lookup", "insert", "prove"}
    /\ MapBusy(w)
    /\ fatal' = TRUE
    /\ UNCHANGED <<wLen, wPc, wMiss, wPartial>>
    /\ UNCHANGED <<proverVars, verifierVars, merkleVars, rerunVars, circuitVars>>

ParNext ==
    \E w \in Workers :
        \/ Lookup(w)
        \/ CompileSetup(w)
        \/ InsertBegin(w)
        \/ InsertEnd(w)
        \/ ReadAndProve(w)
        \/ RuntimeThrow(w)

SpecPar == ParInit /\ [][ParNext]_vars

----------------------------------------------------------------------------
(* Prove on its own, called a second time on the same out/secret once the  *)
(* first call has returned.  The inputs add batches at and beyond the      *)
(* size limit, batches with a negative balance, one too long to pad or one *)
(* beyond the order of the field, batch files that carry roots or a wrong  *)
(* or missing asset sum, and balances within the range bound whose sums    *)
(* reach it.                                                               *)

UniformBatch(i, count, amount) ==
    LET accounts == [j \in 1..count |->
                        [UserId  |-> TestUserId(i - 1, j),
                         Balance |-> [k \in 1..GetNumberOfAssets |-> amount]]]
    IN  [Accounts |-> accounts,
         AssetSum |-> Some(SumFrom(ConstructGoBalance, accounts)),
         MerkleRoot |-> Nil,
         MerkleRootWithAssetSumHash |-> Nil]

\* Batches of the given sizes, every balance component 1.
SizedData(sizes) == [i \in 1..Len(sizes) |-> UniformBatch(i, sizes[i], 1)]

\* A batch whose file carries roots, here ones that fit no tree.
WithRoots(batch) ==
    [batch EXCEPT !.MerkleRoot = Some(FInt(0)),
                  !.MerkleRootWithAssetSumHash = Some(FInt(0))]

\* A batch whose last account owes one unit of the first asset; the sum in
\* the file is the arithmetic sum.
NegativeBatch(i, count) ==
    LET accounts == [j \in 1..count |->
                        [UserId  |-> TestUserId(i - 1, j),
                         Balance |-> [k \in 1..GetNumberOfAssets |->
                                         IF j = count /\ k = 1 THEN -1 ELSE 1]]]
    IN  [Accounts |-> accounts,
         AssetSum |-> Some(SumFrom(ConstructGoBalance, accounts)),
         MerkleRoot |-> Nil,
         MerkleRootWithAssetSumHash |-> Nil]

WithoutSum(batch) == [batch EXCEPT !.AssetSum = Nil]

\* A batch whose last account holds, of the first asset, the first amount
\* that is too long to pad; the sum in the file is the arithmetic sum.
LongBatch(i, count) ==
    LET accounts == [j \in 1..count |->
                        [UserId  |-> TestUserId(i - 1, j),
                         Balance |-> [k \in 1..GetNumberOfAssets |->
                                         IF j = count /\ k = 1
                                         THEN PowOfTwo(ModBytes) ELSE 1]]]
    IN  [Accounts |-> accounts,
         AssetSum |-> Some(SumFrom(ConstructGoBalance, accounts)),
         MerkleRoot |-> Nil,
         MerkleRootWithAssetSumHash |-> Nil]

BoundaryInputs ==
    {SizedData(<<ACCOUNTS_PER_BATCH>>),
     SizedData(<<ACCOUNTS_PER_BATCH - 1>>),
     SizedData(<<ACCOUNTS_PER_BATCH + 1>>),
     SizedData(<<ACCOUNTS_PER_BATCH, ACCOUNTS_PER_BATCH + 1>>),
     SizedData(<<ACCOUNTS_PER_BATCH + 1, 1>>),
     <<WithRoots(UniformBatch(1, ACCOUNTS_PER_BATCH + 1, 1))>>,
     <<UniformBatch(1, 1, 1), WithRoots(UniformBatch(2, ACCOUNTS_PER_BATCH + 2, 0))>>}

NegativeInputs ==
    {<<NegativeBatch(1, 1)>>,
     <<NegativeBatch(1, 2), UniformBatch(2, 1, 1)>>,
     <<UniformBatch(1, 1, 1), NegativeBatch(2, 2)>>,
     <<UniformBatch(1, 2, 1), NegativeBatch(2, 2)>>,
     <<UniformBatch(1, 1, 1), WithRoots(NegativeBatch(2, 2))>>,
     <<UniformBatch(1, 1, 1), WithoutSum(NegativeBatch(2, 2))>>,
     <<UniformBatch(1, 1, 1),
       [NegativeBatch(2, 2) EXCEPT !.Accounts[1].Balance = <<1>>]>>,
     <<UniformBatch(1, 1, 1),
       [NegativeBatch(2, 2) EXCEPT !.Accounts[2].Balance = <<-1>>]>>,
     <<UniformBatch(1, 1, 1),
       [NegativeBatch(2, 2) EXCEPT !.Accounts =
           Append(@, [UserId |-> TestUserId(1, 3), Balance |-> <<1>>])]>>}

\* Batches with an amount too long to pad: the file carries no root, the
\* merkle root only, the hash only, or both.
LongInputs ==
    {<<LongBatch(1, 1)>>,
     <<UniformBatch(1, 1, 1), LongBatch(2, 2)>>,
     <<UniformBatch(1, 1, 1),
       [LongBatch(2, 2) EXCEPT !.MerkleRoot = Some(FInt(0))]>>,
     <<UniformBatch(1, 1, 1),
       [LongBatch(2, 2) EXCEPT !.MerkleRootWithAssetSumHash = Some(FInt(0))]>>,
     <<UniformBatch(1, 1, 1), WithRoots(LongBatch(2, 2))>>}

\* The roots generateProof would compute for a batch.
TrueRoot(batch) == GoComputeMerkleRootFromAccounts(batch.Accounts)

TrueRootWithSum(batch) ==
    GoComputeMiMCHashForAccount(
        [UserId |-> TrueRoot(batch), Balance |-> batch.AssetSum[1]])

WithRoot(batch, root) == [batch EXCEPT !.MerkleRoot = Some(root)]

WithHash(batch, hash) == [batch EXCEPT !.MerkleRootWithAssetSumHash = Some(hash)]

\* Batch files that carry a merkle root, a root-with-sum hash or both, right
\* and wrong.
SuppliedInputs ==
    LET one == UniformBatch(1, 2, 1)
        two == UniformBatch(2, 1, 1)
    IN  {<<WithRoot(one, TrueRoot(one)), two>>,
         <<WithHash(one, TrueRootWithSum(one)), two>>,
         <<WithRoot(WithHash(one, TrueRootWithSum(one)), TrueRoot(one)), two>>,
         <<one, WithHash(two, FInt(0))>>,
         <<one, WithHash(two, TrueRootWithSum(one))>>,
         <<one, WithRoot(two, TrueRoot(one))>>,
         <<one, WithRoot(WithHash(two, TrueRootWithSum(two)), FInt(0))>>}

WithSum(batch, sum) == [batch EXCEPT !.AssetSum = Some(sum)]

\* A batch whose last account holds, of the first asset, one unit more than
\* the order of the field; the sum in the file is the arithmetic sum.
WrappedBatch(i, count) ==
    LET accounts == [j \in 1..count |->
                        [UserId  |-> TestUserId(i - 1, j),
                         Balance |-> [k \in 1..GetNumberOfAssets |->
                                         IF j = count /\ k = 1
                                         THEN FieldModulus + 1 ELSE 1]]]
    IN  [Accounts |-> accounts,
         AssetSum |-> Some(SumFrom(ConstructGoBalance, accounts)),
         MerkleRoot |-> Nil,
         MerkleRootWithAssetSumHash |-> Nil]

\* The batch with every amount replaced by its residue.
Residues(batch) ==
    [batch EXCEPT
        !.Accounts = [j \in 1..Len(@) |->
                         [@[j] EXCEPT !.Balance =
                             [k \in 1..Len(@) |-> FieldElement(@[k])]]],
        !.AssetSum = Some([k \in 1..Len(@[1]) |-> FieldElement(@[1][k])])]

\* Batches with an amount beyond the order of the field: the file carries
\* no root, the merkle root of the residues, or that root and the hash of
\* it with the residues of the sum.
WrappedInputs ==
    LET one == UniformBatch(1, 1, 1)
        two == WrappedBatch(2, 2)
    IN  {<<WrappedBatch(1, 1)>>,
         <<one, two>>,
         <<one, WithRoot(two, TrueRoot(Residues(two)))>>,
         <<one, WithRoot(WithHash(two, TrueRootWithSum(Residues(two))),
                         TrueRoot(Residues(two)))>>,
         <<WithRoot(WithHash(WrappedBatch(1, 1),
                             TrueRootWithSum(Residues(WrappedBatch(1, 1)))),
                    TrueRoot(Residues(WrappedBatch(1, 1))))>>}

\* Batch files whose asset sum is missing or is not the sum of the balances:
\* one unit off in the last asset, all zero, or of the wrong length.
WrongSumInputs ==
    LET one == UniformBatch(1, 2, 1)
        two == UniformBatch(2, 3, 1)
        sum == two.AssetSum[1]
        off == [sum EXCEPT ![GetNumberOfAssets] = @ + 1]
    IN  {<<one, WithoutSum(two)>>,
         <<WithoutSum(one), two>>,
         <<one, WithSum(two, off)>>,
         <<WithSum(one, ConstructGoBalance), two>>,
         <<one, WithSum(two, <<sum[1]>>)>>,
         <<one, WithRoot(WithSum(two, off), TrueRoot(two))>>}

\* Balances within the range bound whose sums reach it: in one batch, over
\* the batches of one middle proof, and only over the whole input.
LargeSumInputs ==
    LET top == PowOfTwo(RANGE_CHECK_BITS) - 1
    IN  {<<UniformBatch(1, 1, top)>>,
         <<UniformBatch(1, 2, top)>>,
         <<UniformBatch(1, ACCOUNTS_PER_BATCH, 2)>>,
         <<UniformBatch(1, 1, 1), UniformBatch(2, 1, top)>>,
         [i \in 1..(ACCOUNTS_PER_BATCH + 1) |->
             UniformBatch(i, 1, IF i > ACCOUNTS_PER_BATCH THEN top ELSE 1)],
         [i \in 1..(ACCOUNTS_PER_BATCH + 1) |->
             UniformBatch(i, 1, IF i = 1 THEN top ELSE 0)]}

\* As many batches as the three layers can hold, and one more.
ManyBatches ==
    {UniformData(ACCOUNTS_PER_BATCH * ACCOUNTS_PER_BATCH, 1, 0),
     UniformData(ACCOUNTS_PER_BATCH * ACCOUNTS_PER_BATCH + 1, 1, 0)}

ProveInputs ==
    {GenerateData(batchCount, countPerBatch, baseSeed) :
        batchCount \in 1..MaxBatchCount,
        countPerBatch \in 1..MaxCountPerBatch,
        baseSeed \in BaseSeeds}
    \cup
    {UniformData(batchCount, countPerBatch, 1) :
        batchCount \in 1..MaxBatchCount,
        countPerBatch \in 1..MaxCountPerBatch}
    \cup BoundaryInputs
    \cup NegativeInputs
    \cup LongInputs
    \cup WrappedInputs
    \cup SuppliedInputs
    \cup WrongSumInputs
    \cup LargeSumInputs
    \cup ManyBatches

\* What cachedProofs may hold when Prove is entered: nothing, or keys set up
\* earlier in the process for some batch sizes.
WarmCache ==
    [n \in {1, ACCOUNTS_PER_BATCH} |-> CompileAndSetup(n, 0)]

ProveInit ==
    /\ secret \in ProveInputs
    /\ pc = "bottom"
    /\ panicMsg = NoPanic
    /\ bottomLevelProofs = <<>>
    /\ midLevelProofs = <<>>
    /\ topLevelProof = Nil
    /\ cachedProofs \in {<<>>, WarmCache}
    /\ compiled = <<>>
    /\ public = [bottom |-> <<>>, mid |-> <<>>, top |-> <<>>]
    /\ VerifierIdle
    /\ MerkleIdle
    /\ ParIdle
    /\ RerunIdle
    /\ CircuitIdle

\* Prove is called again on the same out/secret, in the same process (the
\* cache is kept) or in a new one (the cache is empty).  firstRun keeps what
\* the first call returned and wrote.
Restart ==
    /\ pc = "done"
    /\ run = 1
    /\ run' = run + 1
    /\ firstRun' = Some([bottom |-> bottomLevelProofs,
                         mid |-> midLevelProofs,
                         top |-> topLevelProof,
                         public |-> public])
    /\ pc' = "bottom"
    /\ bottomLevelProofs' = <<>>
    /\ midLevelProofs' = <<>>
    /\ topLevelProof' = Nil
    /\ cachedProofs' \in {cachedProofs, <<>>}
    /\ UNCHANGED <<secret, panicMsg, compiled, public>>
    /\ UNCHANGED <<verifierVars, merkleVars, parVars, circuitVars>>

ProveNext ==
    \/ Prove
    \/ Restart

SpecProve == ProveInit /\ [][ProveNext]_vars

----------------------------------------------------------------------------
(* The circuit on its own: one assignment is turned into a witness and the *)
(* constraints of Define are evaluated on it.                              *)

\* The balance components tried: around the range bound, around the order
\* of the field, the first value too long to pad, and below zero.
ComponentValues ==
    {0, 1, PowOfTwo(RANGE_CHECK_BITS) - 1, PowOfTwo(RANGE_CHECK_BITS),
     PowOfTwo(RANGE_CHECK_BITS) + 1, FieldModulus - 1, FieldModulus + 1,
     PowOfTwo(ModBytes), 0 - 1}

\* An assignment of count accounts, the first with the given balance and
\* the others with one unit of each asset; the sum is the sum of the
\* balances plus excess, and the roots are those of the field elements the
\* circuit will see.
Assignment(count, balance, excess) ==
    LET accounts == [j \in 1..count |->
                        [UserId  |-> TestUserId(0, j),
                         Balance |-> IF j = 1 THEN balance
                                     ELSE [k \in 1..GetNumberOfAssets |-> 1]]]
        sum == [k \in 1..GetNumberOfAssets |->
                   SumFrom(ConstructGoBalance, accounts)[k] + excess]
        seen == [j \in 1..count |->
                    [UserId  |-> accounts[j].UserId,
                     Balance |-> [k \in 1..GetNumberOfAssets |->
                                     FieldElement(accounts[j].Balance[k])]]]
        root == computeMerkleRootFromAccounts(seen)
    IN  [Accounts |-> accounts,
         AssetSum |-> sum,
         MerkleRoot |-> root,
         MerkleRootWithAssetSumHash |->
             hashAccount([UserId |-> root,
                          Balance |-> [k \in 1..GetNumberOfAssets |->
                                          FieldElement(sum[k])]])]

CircuitInputs ==
    {Assignment(count, balance, excess) :
        count \in 1..MaxCountPerBatch,
        balance \in [1..GetNumberOfAssets -> ComponentValues],
        excess \in {0, 1}}

CircuitInit ==
    /\ cWitness \in {Some(a) : a \in CircuitInputs}
    /\ cResult = "none"
    /\ secret = <<>>
    /\ pc = "idle"
    /\ panicMsg = NoPanic
    /\ bottomLevelProofs = <<>>
    /\ midLevelProofs = <<>>
    /\ topLevelProof = Nil
    /\ cachedProofs = <<>>
    /\ compiled = <<>>
    /\ public = [bottom |-> <<>>, mid |-> <<>>, top |-> <<>>]
    /\ VerifierIdle
    /\ MerkleIdle
    /\ ParIdle
    /\ RerunIdle

\* The assignment is converted, which may panic, and the prover is run on
\* the witness: it succeeds exactly when every constraint holds.
CircuitProve ==
    /\ cWitness # Nil
    /\ cResult = "none"
    /\ cResult' = IF ConvertPanics(cWitness[1]) THEN "panic"
                  ELSE IF DefinePanics(cWitness[1].Accounts) THEN "panic"
                  ELSE IF Define(NewWitness(cWitness[1])) THEN "accepted"
                  ELSE "rejected"
    /\ UNCHANGED cWitness
    /\ UNCHANGED <<proverVars, verifierVars, merkleVars, parVars, rerunVars>>

CircuitNext == CircuitProve

SpecCircuit == CircuitInit /\ [][CircuitNext]_vars

----------------------------------------------------------------------------
(* Properties *)

\* The node reached from root by following the bits of position from the
\* top, depth levels down; Nil if the term is not a tree that deep.
RECURSIVE Descend(_, _, _)
Descend(term, position, depth) ==
    IF depth = 0 THEN Some(term)
    ELSE IF DOMAIN term # {"mimc"} THEN Nil
    ELSE IF Len(term.mimc) # 2 THEN Nil
    ELSE IF position < PowOfTwo(depth - 1)
    THEN Descend(term.mimc[1], position, depth - 1)
    ELSE Descend(term.mimc[2], position - PowOfTwo(depth - 1), depth - 1)

IsLeafAt(hash, position, root) ==
    /\ position \in 0..(PowOfTwo(TREE_DEPTH) - 1)
    /\ Descend(root, position, TREE_DEPTH) = Some(hash)

AccountHash(userId, balance) ==
    MiMC(<<userId, MiMC([k \in 1..Len(balance) |-> FInt(balance[k])])>>)

\* C1: whenever VerifyUser returns, the account's hash is the leaf at the
\* submitted position under the bottom root, bottom's root-sum hash is the
\* leaf at bottom's position under the middle root, middle's root-sum hash
\* is the leaf at middle's position under the top root, and top's root-sum
\* hash is the account hash of (top root, top asset sum).
C1_ReturnLinksAccountToTotal ==
    vuResult = Ok =>
        LET u == vuInput[1]
            bottom == u.ProofInfo.BottomProof
            middle == u.ProofInfo.MiddleProof
            top == u.ProofInfo.TopProof
        IN  /\ IsLeafAt(AccountHash(u.AccountInfo.UserId, u.AccountInfo.Balance),
                        u.ProofInfo.UserMerklePosition, bottom.MerkleRoot)
            /\ IsLeafAt(bottom.MerkleRootWithAssetSumHash, bottom.MerklePosition,
                        middle.MerkleRoot)
            /\ IsLeafAt(middle.MerkleRootWithAssetSumHash, middle.MerklePosition,
                        top.MerkleRoot)
            /\ top.AssetSum # Nil
            /\ top.MerkleRootWithAssetSumHash =
                   AccountHash(top.MerkleRoot, top.AssetSum[1])

C1_Witness ==
    /\ vuResult = Ok
    /\ vuCase[1].kind = "genuine"
    /\ vuCase[1].batch = ACCOUNTS_PER_BATCH
    /\ vuCase[1].position = 1
    /\ vuInput[1].ProofInfo.MiddleProof.MerklePosition = 1

SumOfBalances(balances) ==
    SumFrom(ConstructGoBalance, [i \in 1..Len(balances) |-> [Balance |-> balances[i]]])

\* What a proof commits to satisfies the range and sum constraints.
CommitsToRangeAndSum(proof) ==
    /\ proof.Proof # Nil
    /\ LET w == proof.Proof[1].witness
       IN  /\ \A i \in 1..Len(w.Balances) : \A k \in 1..Len(w.Balances[i]) :
                 /\ w.Balances[i][k] >= 0
                 /\ w.Balances[i][k] < PowOfTwo(RANGE_CHECK_BITS)
           /\ SumOfBalances(w.Balances) = w.AssetSum

\* C2: whenever VerifyUser returns for a bundle, including one whose Proof
\* and VerificationKey were chosen by the custodian, each of the three
\* proofs commits to leaves whose balances lie in range and whose committed
\* sum is the component-wise sum of those balances.
C2_ReturnMeansRangeAndSum ==
    vuResult = Ok =>
        /\ CommitsToRangeAndSum(vuInput[1].ProofInfo.BottomProof)
        /\ CommitsToRangeAndSum(vuInput[1].ProofInfo.MiddleProof)
        /\ CommitsToRangeAndSum(vuInput[1].ProofInfo.TopProof)

GenuineSubmission ==
    /\ vuCase # Nil
    /\ vuCase[1].kind = "genuine"
    /\ Committed(vuCase[1].batch, vuCase[1].account, vuCase[1].position)
    /\ vuCase[1].path = vuCase[1].position

\* C3: for every account at position p of batch b of a chain produced by
\* Prove, VerifyUser returns on the bundle of the account, its path in the
\* bottom nodes, p, bottom b, the middle proof above it and the top proof.
C3_GenuineBundleVerifies ==
    GenuineSubmission => vuResult = Ok

C3_Witness ==
    /\ GenuineSubmission
    /\ vuCase[1].batch = Len(secret) - 1
    /\ vuCase[1].batch > ACCOUNTS_PER_BATCH - 1
    /\ vuCase[1].position = Len(secret[1].Accounts) - 1
    /\ vuCase[1].position > 0
    /\ vuResult = Ok

\* C4: after Prove has written its output, verifyFull on the persisted
\* bottom, middle and top proofs and the original batches in their original
\* order returns.
C4_FullVerificationOfOutputSucceeds ==
    (vfResult # "none" /\ vfCase = "none") => vfResult = Ok

C4_Witness ==
    /\ vfCase = "none"
    /\ vfResult = Ok
    /\ Len(public.bottom) > ACCOUNTS_PER_BATCH
    /\ Len(public.mid) > 1
    /\ Len(vfLog) > 3 * Len(public.bottom)

\* C5: every bottom and middle proof written has no asset sum; the top
\* proof is written with its asset sum.
C5_OnlyTopIsWrittenWithAssetSum ==
    /\ \A k \in 1..Len(public.bottom) : public.bottom[k].AssetSum = Nil
    /\ \A k \in 1..Len(public.mid) : public.mid[k].AssetSum = Nil
    /\ \A k \in 1..Len(public.top) : public.top[k].AssetSum # Nil

C5_Witness ==
    /\ pc = "done"
    /\ Len(public.bottom) > 1
    /\ Len(public.mid) > 1
    /\ Len(public.top) = 1
    /\ \A k \in 1..Len(bottomLevelProofs) : bottomLevelProofs[k].AssetSum # Nil

Written == public.bottom \o public.mid \o public.top

\* C6: every proof written to out/public (bottom, middle and top) has no
\* merkle nodes.
C6_WrittenWithoutNodes ==
    \A k \in 1..Len(Written) : Written[k].MerkleNodes = Nil

CompileCount(proofLen) ==
    Cardinality({k \in 1..Len(compiled) : compiled[k] = proofLen})

\* C7: when several generateProof calls for batches of the same size run in
\* parallel in one process, the circuit for that size is compiled and set
\* up at most once.
C7_AtMostOneCompilePerSize ==
    \A proofLen \in 1..MaxCountPerBatch : CompileCount(proofLen) <= 1

\* C8: for every list L of at most 2^D leaves and every index i into L,
\* verifyMerklePath(L[i], i, ComputeMerklePath(i, nodes(L)), root(L)) is ok.
C8_PathOfBuiltTreeVerifies ==
    (mStage = "verified" /\ mPos < Len(mLeaves)) => mResult = "ok"

C8_Witness ==
    /\ mStage = "verified"
    /\ Len(mLeaves) = PowOfTwo(TREE_DEPTH)
    /\ mPos = PowOfTwo(TREE_DEPTH) - 1
    /\ mLeaves[1] # mLeaves[Len(mLeaves)]
    /\ mResult = "ok"

\* A run executed the checks in order up to the first one that failed,
\* nothing after it, and returned only if none failed.
FailsFast(checks, log, result) ==
    /\ Len(log) <= Len(checks)
    /\ \A k \in 1..Len(log) : log[k] = checks[k]
    /\ \A k \in 1..Len(log) : log[k].err # Ok => k = Len(log)
    /\ (\E k \in 1..Len(checks) : checks[k].err # Ok) => result = "panic"
    /\ result = Ok => Len(log) = Len(checks)

\* C9: in VerifyUser and verifyFull the first check that reports an error
\* aborts the verification: no later check is executed and the run never
\* returns once a check has failed.
C9_FirstFailureAborts ==
    /\ vuResult # "none" =>
          FailsFast(VerifyUserChecks(vuInput[1]), vuLog, vuResult)
    /\ vfResult # "none" =>
          FailsFast(verifyFullChecks(FullInput(vfCase).bottom,
                                     FullInput(vfCase).mid,
                                     FullInput(vfCase).top,
                                     FullInput(vfCase).accounts),
                    vfLog, vfResult)

C9_Witness ==
    /\ vfResult = "panic"
    /\ vfCase = "badProof"
    /\ Len(public.bottom) > 1
    /\ Len(vfLog) = 3 * Len(public.bottom) - 1
    /\ vfLog[Len(vfLog)].err = "error decoding proof"
    /\ \A k \in 1..(Len(vfLog) - 1) : vfLog[k].err = Ok

\* C10 as stated: given the three genuine proofs, VerifyUser fails whenever
\* the submitted (account, position) is not the pair committed at that
\* leaf, and the failure is raised by the bottom-layer merkle path check
\* after the three proof checks have passed.
C10_WrongPairAlwaysFailsAtBottomPath ==
    (/\ vuCase # Nil
     /\ vuCase[1].kind = "genuine"
     /\ ~Committed(vuCase[1].batch, vuCase[1].account, vuCase[1].position))
    => /\ vuResult = "panic"
       /\ Len(vuLog) = 4
       /\ \A k \in 1..3 : vuLog[k].err = Ok
       /\ vuLog[4].name = "account in bottom"
       /\ vuLog[4].err # Ok

\* C10 amended: given the three genuine proofs, VerifyUser fails whenever
\* the submitted (account, position) is not the pair committed at that
\* leaf.  When the balance of the submitted account can be hashed, the
\* failure is raised by the bottom-layer merkle path check after the three
\* proof checks have passed; when it cannot, the failure is raised while
\* the account is hashed, before any proof check.
C10_WrongPairFailsAtBottomPath ==
    (/\ vuCase # Nil
     /\ vuCase[1].kind = "genuine"
     /\ ~Committed(vuCase[1].batch, vuCase[1].account, vuCase[1].position))
    => /\ vuResult = "panic"
       /\ ~HashPanics(vuCase[1].account.Balance) =>
             /\ Len(vuLog) = 4
             /\ \A k \in 1..3 : vuLog[k].err = Ok
             /\ vuLog[4].name = "account in bottom"
             /\ vuLog[4].err # Ok
       /\ HashPanics(vuCase[1].account.Balance) =>
             /\ Len(vuLog) = 1
             /\ vuLog[1].name = "account hash"
             /\ vuLog[1].err = "panic: invalid balance"

C10_Witness ==
    /\ vuCase # Nil
    /\ vuCase[1].kind = "genuine"
    /\ Committed(vuCase[1].batch, vuCase[1].account, 0)
    /\ vuCase[1].position = 1
    /\ vuCase[1].path = 0
    /\ Len(At(secret, vuCase[1].batch).Accounts) > 1
    /\ vuResult = "panic"
    /\ vuLog[4].err = "merkle proof path verification failed"

\* The accounts of the batches that lie under the same middle proof as
\* batch b (Go index).
ChunkAccounts(batches, b) ==
    LET first == UpperLevelProofIndex(b) * ACCOUNTS_PER_BATCH
    IN  [i \in (first + 1)..Len(batches) |->
            IF i <= first + ACCOUNTS_PER_BATCH THEN batches[i].Accounts ELSE <<>>]

\* The bundle's bottom proof is the first run's, its middle and top proofs
\* are those of another run whose accounts under that middle proof differ.
CrossTreeSplice ==
    /\ vuResult # "none"
    /\ vuCase[1].kind \in SpliceKinds
    /\ ChunkAccounts(OtherData(secret, vuCase[1].kind, vuCase[1].batch),
                     vuCase[1].batch)
           # ChunkAccounts(secret, vuCase[1].batch)

\* C11 amended: a bundle whose bottom proof comes from one run of Prove and
\* whose middle and top proofs come from an independent run over batches of
\* the same sizes, in which the accounts under that middle proof differ
\* from the first run's, makes VerifyUser fail, and the failing check is
\* the bottom-in-middle merkle path check: the three proofs and the
\* account's own path were accepted before it.
C11_SpliceFailsAtBottomInMiddle ==
    CrossTreeSplice =>
        /\ vuResult = "panic"
        /\ Len(vuLog) = 5
        /\ \A k \in 1..4 : vuLog[k].err = Ok
        /\ vuLog[5].name = "bottom in middle"
        /\ vuLog[5].err = "merkle proof path verification failed"

\* C11 as stated, for every independent run of the same sizes, whatever
\* its accounts: VerifyUser fails at the bottom-in-middle check.
C11_AnySpliceFails ==
    (vuResult # "none" /\ vuCase[1].kind \in SpliceKinds) =>
        /\ vuResult = "panic"
        /\ vuLog[Len(vuLog)].name = "bottom in middle"

C11_Witness ==
    /\ CrossTreeSplice
    /\ vuCase[1].kind = "spliceAll"
    /\ Len(secret) > ACCOUNTS_PER_BATCH
    /\ vuCase[1].batch = Len(secret) - 1
    /\ vuResult = "panic"
    /\ vuLog[Len(vuLog)].name = "bottom in middle"

\* The bundle submitted is the one the holder received, except for the
\* asset sum of its top proof.
OnlyTopSumAltered ==
    /\ vuResult # "none"
    /\ vuCase[1].kind \in {"topSum", "noTopSum"}
    /\ Committed(vuCase[1].batch, vuCase[1].account, vuCase[1].position)
    /\ vuCase[1].path = vuCase[1].position
    /\ vuInput[1].ProofInfo.TopProof.AssetSum # ForUser(public.top[1]).AssetSum
    /\ vuInput[1] = [UserBundle(public, vuCase[1].batch, vuCase[1].account,
                                vuCase[1].position,
                                PathChoice(At(public.bottom, vuCase[1].batch).MerkleNodes,
                                           vuCase[1].path))
                        EXCEPT !.ProofInfo.TopProof.AssetSum =
                                   vuInput[1].ProofInfo.TopProof.AssetSum]

\* C12: when only the asset sum of the top proof was altered after proving,
\* VerifyUser hashes the account, passes the three proof checks and the
\* three merkle path checks, and fails at the seventh and last check, the
\* one of the top proof's asset sum.
C12_FailsOnlyAtTopAssetSum ==
    OnlyTopSumAltered =>
        /\ vuResult = "panic"
        /\ Len(vuLog) = 7
        /\ \A k \in 1..6 : vuLog[k].err = Ok
        /\ vuLog[7].name = "top asset sum"
        /\ vuLog[7].err # Ok

C12_Witness ==
    /\ OnlyTopSumAltered
    /\ vuCase[1].kind = "topSum"
    /\ Len(secret) > ACCOUNTS_PER_BATCH
    /\ vuCase[1].batch = Len(secret) - 1
    /\ vuResult = "panic"
    /\ vuLog[7].err = "top layer proof's MerkleRootWithAssetSumHash does not match"

\* The leaf that the bottom proofs given to verifyFull hold for account j of
\* batch i (from 1), Nil if they hold none.
LeafHeldFor(bottoms, i, j) ==
    IF /\ i <= Len(bottoms)
       /\ Len(bottoms[i].MerkleNodes) > TREE_DEPTH
       /\ j <= Len(bottoms[i].MerkleNodes[TREE_DEPTH + 1])
    THEN Some(bottoms[i].MerkleNodes[TREE_DEPTH + 1][j])
    ELSE Nil

SomeAccountDiffers(in) ==
    \E i \in 1..Len(in.accounts) :
        \E j \in 1..Len(in.accounts[i]) :
            LeafHeldFor(in.bottom, i, j)
                # Some(AccountHash(in.accounts[i][j].UserId,
                                    in.accounts[i][j].Balance))

\* C13: verifyFull panics whenever the hash of some account j of some batch
\* i is not the leaf j of the merkle nodes of bottom proof i; in
\* particular when two different accounts of a batch are given in swapped
\* order.
C13_ReorderedAccountsFail ==
    vfResult # "none" =>
        \A in \in {FullInput(vfCase)} :
            SomeAccountDiffers(in) => vfResult = "panic"

C13_Witness ==
    /\ vfCase = "swapAccounts"
    /\ Len(secret[1].Accounts) > 1
    /\ secret[1].Accounts[1] # secret[1].Accounts[Len(secret[1].Accounts)]
    /\ vfResult = "panic"
    /\ vfLog[Len(vfLog)].name = "account inclusion"
    /\ vfLog[Len(vfLog)].err = "account not found in bottom level proofs"
    /\ \A k \in 1..(Len(vfLog) - 1) : vfLog[k].err = Ok

\* The merkle nodes of a proof are those of a tree with the proof's root.
NodesMatchRoot(proof) ==
    verifyBuild(proof.MerkleNodes, proof.MerkleRoot, TREE_DEPTH) = Ok

\* C14: verifyFull panics whenever the merkle nodes of a proof given to it,
\* a bottom proof, a middle proof or the top proof, are inconsistent with
\* that proof's merkle root.
C14_InconsistentNodesFail ==
    vfResult # "none" =>
        \A in \in {FullInput(vfCase)} :
            (\/ \E k \in 1..Len(in.bottom) : ~NodesMatchRoot(in.bottom[k])
             \/ \E k \in 1..Len(in.mid) : ~NodesMatchRoot(in.mid[k])
             \/ ~NodesMatchRoot(in.top))
                => vfResult = "panic"

Oversize(batch) == Len(batch.Accounts) > PowOfTwo(TREE_DEPTH)

\* The first batch, in order, with more accounts than a tree has leaves.
FirstOversize ==
    CHOOSE i \in 1..Len(secret) :
        Oversize(secret[i]) /\ \A h \in 1..(i - 1) : ~Oversize(secret[h])

NothingWritten == public = [bottom |-> <<>>, mid |-> <<>>, top |-> <<>>]

\* A batch as the data generator writes it, roots present or not: balances
\* of the right length within the range, and their sum.
WellFormedBatch(batch) ==
    /\ \A j \in 1..Len(batch.Accounts) :
          /\ Len(batch.Accounts[j].Balance) = GetNumberOfAssets
          /\ \A k \in 1..GetNumberOfAssets :
                batch.Accounts[j].Balance[k] \in 0..(PowOfTwo(RANGE_CHECK_BITS) - 1)
    /\ batch.AssetSum = Some(SumOfBalances([j \in 1..Len(batch.Accounts) |->
                                              batch.Accounts[j].Balance]))
    /\ batch.MerkleRoot = Nil
    /\ batch.MerkleRootWithAssetSumHash = Nil

\* generateProof is at batch i (from 1) or has panicked on it.
AtBatch(i) ==
    /\ pc \in {"bottom", "panic"}
    /\ Len(bottomLevelProofs) = i - 1
    /\ i <= Len(secret)

\* C15: when some input batch has more than 2^TREE_DEPTH accounts Prove
\* never gets past that batch, panics on it for the number of leaves, and
\* writes no proof file; a batch of exactly 2^TREE_DEPTH accounts is
\* accepted: generateProof does not panic on it.
C15_OversizeBatchAborts ==
    /\ (\E i \in 1..Len(secret) : Oversize(secret[i])) =>
          /\ pc \in {"bottom", "panic"}
          /\ Len(bottomLevelProofs) < FirstOversize
          /\ NothingWritten
          /\ (pc = "panic" /\ AtBatch(FirstOversize)) =>
                panicMsg \in {"too many hashes", "Circuit failed to compile"}
    /\ \A i \in 1..Len(secret) :
          (/\ Len(secret[i].Accounts) = PowOfTwo(TREE_DEPTH)
           /\ WellFormedBatch(secret[i])
           /\ AtBatch(i)) => pc # "panic"

\* The exact batch was accepted and the oversize batch after it stopped the
\* call with nothing written.
C15_Witness ==
    /\ Len(secret) = 2
    /\ Len(secret[1].Accounts) = PowOfTwo(TREE_DEPTH)
    /\ Len(secret[2].Accounts) = PowOfTwo(TREE_DEPTH) + 1
    /\ Len(bottomLevelProofs) = 1
    /\ pc = "panic"
    /\ NothingWritten

HasNegative(batch) ==
    \E j \in 1..Len(batch.Accounts) :
        \E k \in 1..Len(batch.Accounts[j].Balance) :
            batch.Accounts[j].Balance[k] < 0

\* generateProof is about to be called on a batch with a negative balance
\* component.
AboutToGenerateNegative ==
    /\ pc = "bottom"
    /\ HasNegative(secret[Len(bottomLevelProofs) + 1])

\* An account with a balance of the wrong length comes before, or is, the
\* first account with a negative component.
WrongLengthFirst(batch) ==
    \E j \in 1..Len(batch.Accounts) :
        /\ Len(batch.Accounts[j].Balance) # GetNumberOfAssets
        /\ \A h \in 1..(j - 1) :
              \A k \in 1..Len(batch.Accounts[h].Balance) :
                  batch.Accounts[h].Balance[k] >= 0

\* C16 as stated: the call of generateProof on a batch with a negative
\* balance component panics in the balance sum, with one of its two
\* messages: no circuit is compiled or set up for it, the cache is
\* untouched and no proof is made.
C16_NegativeAlwaysRejectedBySum ==
    [][AboutToGenerateNegative =>
          /\ pc' = "panic"
          /\ panicMsg' \in {"negative asset balance found",
                            INVALID_BALANCE_LENGTH_MESSAGE}
          /\ UNCHANGED <<cachedProofs, compiled, bottomLevelProofs, public>>]_vars

\* C16 amended: the call of generateProof on a batch with a negative
\* balance component panics before anything is compiled: no circuit is
\* compiled or set up for it, the cache is untouched and no proof is made.
\* A batch without an asset sum is rejected by the nil check; a batch with
\* one is rejected by the balance sum, for the negative component unless a
\* balance of the wrong length comes first.
C16_NegativeRejectedBySum ==
    [][AboutToGenerateNegative =>
          /\ pc' = "panic"
          /\ UNCHANGED <<cachedProofs, compiled, bottomLevelProofs, public>>
          /\ \E batch \in {secret[Len(bottomLevelProofs) + 1]} :
                panicMsg' = IF batch.AssetSum = Nil
                            THEN "AssetSum is nil"
                            ELSE IF WrongLengthFirst(batch)
                            THEN INVALID_BALANCE_LENGTH_MESSAGE
                            ELSE "negative asset balance found"]_vars

\* The negative batch has a size no earlier batch had, so a call that got
\* as far as the cache would have compiled for it.
C16_Witness ==
    /\ Len(secret) = 2
    /\ HasNegative(secret[2])
    /\ secret[2].AssetSum # Nil
    /\ Len(bottomLevelProofs) = 1
    /\ pc = "panic"
    /\ panicMsg = "negative asset balance found"
    /\ Len(secret[2].Accounts) \notin DOMAIN cachedProofs
    /\ compiled # <<>>

\* The balance components of an assignment, as the circuit sees them.
ComponentsSeen(assignment) ==
    {FieldElement(assignment.Accounts[j].Balance[k]) :
        j \in 1..Len(assignment.Accounts), k \in 1..GetNumberOfAssets}

\* C17: the circuit accepts a batch with a balance component of
\* 2^RANGE_CHECK_BITS - 1 (the others in range, the sum and the roots
\* right), and never accepts a batch in which some balance component is
\* 2^RANGE_CHECK_BITS or larger: the prover fails on it.  A component is the
\* field element the circuit receives.
C17_RangeBoundary ==
    cResult # "none" =>
        \A a \in {cWitness[1]} :
            /\ (\E c \in ComponentsSeen(a) : c >= PowOfTwo(RANGE_CHECK_BITS)) =>
                  cResult \in {"rejected", "panic"}
            /\ (/\ ~ConvertPanics(a)
                /\ \E c \in ComponentsSeen(a) : c >= PowOfTwo(RANGE_CHECK_BITS)) =>
                  cResult = "rejected"
            /\ (/\ \A j \in 1..Len(a.Accounts) :
                      \A k \in 1..GetNumberOfAssets :
                          a.Accounts[j].Balance[k]
                              \in 0..(PowOfTwo(RANGE_CHECK_BITS) - 1)
                /\ a.AssetSum = SumOfBalances([j \in 1..Len(a.Accounts) |->
                                                  a.Accounts[j].Balance]))
                  => cResult = "accepted"

C17_Witness ==
    /\ cResult = "accepted"
    /\ Len(cWitness[1].Accounts) > 1
    /\ \A k \in 1..GetNumberOfAssets :
          cWitness[1].Accounts[1].Balance[k] = PowOfTwo(RANGE_CHECK_BITS) - 1

\* The fields of a proof that the idempotence of Prove is about.
PublicFields(proof) ==
    [MerkleRoot |-> proof.MerkleRoot,
     MerkleRootWithAssetSumHash |-> proof.MerkleRootWithAssetSumHash,
     AssetSum |-> proof.AssetSum]

SameFields(proofs, earlier) ==
    /\ Len(proofs) <= Len(earlier)
    /\ \A k \in 1..Len(proofs) :
          PublicFields(proofs[k]) = PublicFields(earlier[k])

\* C18: a second call of Prove on the same inputs, whatever cachedProofs
\* held before either call, does not panic and gives every bottom, middle
\* and top proof the merkle root, root-with-sum hash and asset sum the
\* first call gave it, in memory and in the files written.
C18_SecondRunSameFields ==
    run = 2 =>
        /\ pc # "panic"
        /\ SameFields(bottomLevelProofs, firstRun[1].bottom)
        /\ SameFields(midLevelProofs, firstRun[1].mid)
        /\ SameFields(topLevelProof, firstRun[1].top)
        /\ pc = "done" =>
              /\ Len(bottomLevelProofs) = Len(firstRun[1].bottom)
              /\ Len(midLevelProofs) = Len(firstRun[1].mid)
              /\ Len(topLevelProof) = 1
              /\ Len(public.bottom) = Len(firstRun[1].public.bottom)
              /\ SameFields(public.bottom, firstRun[1].public.bottom)
              /\ Len(public.mid) = Len(firstRun[1].public.mid)
              /\ SameFields(public.mid, firstRun[1].public.mid)
              /\ Len(public.top) = 1
              /\ SameFields(public.top, firstRun[1].public.top)

\* The second call is over, in a process whose cache was empty, and its
\* proofs are not those of the first call although the fields agree.
C18_Witness ==
    /\ run = 2
    /\ pc = "done"
    /\ Len(secret) > ACCOUNTS_PER_BATCH
    /\ topLevelProof[1].Proof # firstRun[1].top[1].Proof
    /\ PublicFields(topLevelProof[1]) = PublicFields(firstRun[1].top[1])
    /\ public.top[1].AssetSum = firstRun[1].public.top[1].AssetSum

CeilDiv(n, d) == (n + d - 1) \div d

\* The leaves a proof over the given lower proofs has: the hash of each
\* lower proof's root and asset sum, in order, then zero padding.
LiftedLeaves(lower) ==
    [j \in 1..PowOfTwo(TREE_DEPTH) |->
        IF j <= Len(lower)
        THEN AccountHash(lower[j].MerkleRoot, lower[j].AssetSum[1])
        ELSE FInt(0)]

\* upper is a proof over exactly the given lower proofs, in order.
ProofOver(upper, lower) ==
    /\ Len(upper.MerkleNodes) = TREE_DEPTH + 1
    /\ upper.MerkleNodes[TREE_DEPTH + 1] = LiftedLeaves(lower)
    /\ upper.MerkleNodes[1] = <<upper.MerkleRoot>>
    /\ upper.AssetSum = Some(SumOfBalances([j \in 1..Len(lower) |->
                                               lower[j].AssetSum[1]]))
    /\ verifyProof(upper) = Ok

\* Bottom proofs first to last (from 1) of the run.
Chunk(m) ==
    SubSeq(bottomLevelProofs, (m - 1) * ACCOUNTS_PER_BATCH + 1,
           IF m * ACCOUNTS_PER_BATCH > Len(bottomLevelProofs)
           THEN Len(bottomLevelProofs) ELSE m * ACCOUNTS_PER_BATCH)

\* C19: once Prove has built the middle layer over n bottom proofs there
\* are exactly ceil(n / ACCOUNTS_PER_BATCH) middle proofs, the m-th over
\* the m-th run of up to ACCOUNTS_PER_BATCH consecutive bottom proofs in
\* order; once it has built the top layer there is exactly one top proof,
\* over all middle proofs in order; and for n up to ACCOUNTS_PER_BATCH
\* squared the grouping itself never makes Prove panic.
C19_ChunksOfBottomProofs ==
    /\ pc = "middle" =>
          Len(midLevelProofs) < CeilDiv(Len(bottomLevelProofs), ACCOUNTS_PER_BATCH)
    /\ pc \in {"middle", "top", "bottomPaths", "middlePaths", "writeBottom",
               "writeMiddle", "writeTop", "done"} =>
          /\ Len(bottomLevelProofs) = Len(secret)
          /\ \A m \in 1..Len(midLevelProofs) :
                ProofOver(midLevelProofs[m], Chunk(m))
    /\ pc \in {"top", "bottomPaths", "middlePaths", "writeBottom",
               "writeMiddle", "writeTop", "done"} =>
          Len(midLevelProofs) = CeilDiv(Len(secret), ACCOUNTS_PER_BATCH)
    /\ pc \in {"bottomPaths", "middlePaths", "writeBottom", "writeMiddle",
               "writeTop", "done"} =>
          /\ Len(topLevelProof) = 1
          /\ ProofOver(topLevelProof[1], midLevelProofs)
    /\ (/\ pc = "panic"
        /\ Len(bottomLevelProofs) = Len(secret)
        /\ Len(secret) <= ACCOUNTS_PER_BATCH * ACCOUNTS_PER_BATCH) =>
          panicMsg # "too many hashes"

\* A run over one full chunk and one more bottom proof.
C19_Witness ==
    /\ pc = "done"
    /\ Len(secret) = ACCOUNTS_PER_BATCH + 1
    /\ Len(bottomLevelProofs) = ACCOUNTS_PER_BATCH + 1
    /\ Len(midLevelProofs) = 2
    /\ ProofOver(midLevelProofs[2], <<bottomLevelProofs[ACCOUNTS_PER_BATCH + 1]>>)
    /\ ProofOver(topLevelProof[1], midLevelProofs)

\* Lower proof i (Go index) sits at position i mod ACCOUNTS_PER_BATCH under
\* upper proof i div ACCOUNTS_PER_BATCH: its position and path are those,
\* and the path leads from its root-with-sum hash to the upper root.
BackFilled(lower, upper) ==
    \A i \in 0..(Len(lower) - 1) :
        /\ i \div ACCOUNTS_PER_BATCH < Len(upper)
        /\ At(lower, i).MerklePosition = i % ACCOUNTS_PER_BATCH
        /\ At(lower, i).MerklePath =
               ComputeMerklePath(i % ACCOUNTS_PER_BATCH,
                                 At(upper, i \div ACCOUNTS_PER_BATCH).MerkleNodes)
        /\ Len(At(lower, i).MerklePath) = TREE_DEPTH
        /\ IsLeafAt(At(lower, i).MerkleRootWithAssetSumHash,
                    i % ACCOUNTS_PER_BATCH,
                    At(upper, i \div ACCOUNTS_PER_BATCH).MerkleRoot)
        /\ FoldPath(At(lower, i).MerkleRootWithAssetSumHash,
                    i % ACCOUNTS_PER_BATCH, At(lower, i).MerklePath)
               = At(upper, i \div ACCOUNTS_PER_BATCH).MerkleRoot

\* C20: after the back-fill, bottom proof i has position
\* i mod ACCOUNTS_PER_BATCH and the path of that position in the nodes of
\* middle proof i div ACCOUNTS_PER_BATCH, and middle proof i likewise
\* against the single top proof; what is written keeps them.
C20_BackFillKeepsOrder ==
    /\ pc \in {"middlePaths", "writeBottom", "writeMiddle", "writeTop", "done"} =>
          BackFilled(bottomLevelProofs, midLevelProofs)
    /\ pc \in {"writeBottom", "writeMiddle", "writeTop", "done"} =>
          BackFilled(midLevelProofs, topLevelProof)
    /\ pc = "done" =>
          /\ BackFilled(public.bottom, public.mid)
          /\ BackFilled(public.mid, public.top)

\* Two bottom proofs at the same position under different middle proofs,
\* and one at another position.
C20_Witness ==
    /\ pc = "done"
    /\ Len(bottomLevelProofs) > ACCOUNTS_PER_BATCH
    /\ Len(midLevelProofs) = 2
    /\ bottomLevelProofs[2].MerklePosition = 1
    /\ bottomLevelProofs[ACCOUNTS_PER_BATCH + 1].MerklePosition = 0
    /\ bottomLevelProofs[ACCOUNTS_PER_BATCH + 1].MerklePath
           # bottomLevelProofs[1].MerklePath
    /\ midLevelProofs[2].MerklePosition = 1

\* Every lower proof verifies against the root of the upper proof that
\* encloses it, with the position and path it carries.
PathsVerify(lower, upper) ==
    \A i \in 0..(Len(lower) - 1) :
        /\ At(lower, i).MerklePath # Nil
        /\ UpperLevelProofIndex(i) < Len(upper)
        /\ verifyMerklePath(At(lower, i).MerkleRootWithAssetSumHash,
                            At(lower, i).MerklePosition,
                            At(lower, i).MerklePath,
                            At(upper, UpperLevelProofIndex(i)).MerkleRoot) = Ok

\* C21: every bottom and middle proof Prove produces verifies, by
\* verifyMerklePath on its root-with-sum hash, position and path, against
\* the merkle root of the proof one level up that encloses it; this holds
\* of the proofs returned and of the files written.
C21_ProducedPathsVerify ==
    /\ pc \in {"middlePaths", "writeBottom", "writeMiddle", "writeTop", "done"} =>
          PathsVerify(bottomLevelProofs, midLevelProofs)
    /\ pc \in {"writeBottom", "writeMiddle", "writeTop", "done"} =>
          PathsVerify(midLevelProofs, topLevelProof)
    /\ pc = "done" =>
          /\ PathsVerify(public.bottom, public.mid)
          /\ PathsVerify(public.mid, public.top)

\* Two middle proofs, the second over a single bottom proof, all verified.
C21_Witness ==
    /\ pc = "done"
    /\ Len(public.mid) = 2
    /\ Len(public.bottom) = ACCOUNTS_PER_BATCH + 1
    /\ public.bottom[2].MerkleRootWithAssetSumHash
           # public.bottom[1].MerkleRootWithAssetSumHash
    /\ PathsVerify(public.bottom, public.mid)
    /\ PathsVerify(public.mid, public.top)

\* The root-with-sum hash of a proof is the account hash of its merkle root
\* and asset sum.
HashBindsRootAndSum(proof) ==
    /\ proof.AssetSum # Nil
    /\ proof.MerkleRootWithAssetSumHash =
           GoComputeMiMCHashForAccount(
               [UserId |-> proof.MerkleRoot, Balance |-> proof.AssetSum[1]])

SuppliedRoots(elements) ==
    elements.MerkleRoot # Nil \/ elements.MerkleRootWithAssetSumHash # Nil

\* C22: in every proof generateProof has returned, bottom, middle or top,
\* MerkleRootWithAssetSumHash is the account hash of the pair (MerkleRoot,
\* AssetSum), whether generateProof computed the two roots or the caller
\* supplied one or both of them.
C22_HashBindsRootAndSum ==
    pc \in {"bottom", "middle", "top", "bottomPaths", "panic"} =>
        /\ \A i \in 1..Len(bottomLevelProofs) :
               HashBindsRootAndSum(bottomLevelProofs[i])
        /\ \A i \in 1..Len(midLevelProofs) :
               HashBindsRootAndSum(midLevelProofs[i])
        /\ \A i \in 1..Len(topLevelProof) :
               HashBindsRootAndSum(topLevelProof[i])

\* A proof was returned for a batch that came with both roots.
C22_Witness ==
    /\ pc = "bottomPaths"
    /\ secret[1].MerkleRoot # Nil
    /\ secret[1].MerkleRootWithAssetSumHash # Nil
    /\ HashBindsRootAndSum(bottomLevelProofs[1])
    /\ HashBindsRootAndSum(topLevelProof[1])

\* The grid has a layer for each depth 0..TREE_DEPTH, layer i of 2^i nodes,
\* and verifyBuild accepts it for the root.
GridVerifies(proof) ==
    /\ Len(proof.MerkleNodes) = TREE_DEPTH + 1
    /\ \A i \in 0..TREE_DEPTH : Len(At(proof.MerkleNodes, i)) = PowOfTwo(i)
    /\ verifyBuild(proof.MerkleNodes, proof.MerkleRoot, TREE_DEPTH) = Ok

\* C23: every proof generateProof has returned, bottom, middle or top,
\* carries MerkleNodes of TREE_DEPTH + 1 layers for which
\* verifyBuild(MerkleNodes, MerkleRoot, TREE_DEPTH) reports no error.
C23_ReturnedGridVerifies ==
    pc \in {"bottom", "middle", "top", "bottomPaths", "panic"} =>
        /\ \A i \in 1..Len(bottomLevelProofs) : GridVerifies(bottomLevelProofs[i])
        /\ \A i \in 1..Len(midLevelProofs) : GridVerifies(midLevelProofs[i])
        /\ \A i \in 1..Len(topLevelProof) : GridVerifies(topLevelProof[i])

\* Proofs of all three layers were returned, one over a padded batch and
\* one over a full batch.
C23_Witness ==
    /\ pc = "bottomPaths"
    /\ Len(secret[1].Accounts) < ACCOUNTS_PER_BATCH
    /\ Len(bottomLevelProofs) = ACCOUNTS_PER_BATCH + 1
    /\ GridVerifies(bottomLevelProofs[1])
    /\ GridVerifies(midLevelProofs[1])
    /\ GridVerifies(topLevelProof[1])

\* generateProof is about to be called on a batch whose asset sum is absent
\* or is not the sum of its balances.
AboutToProveWithBadSum ==
    /\ pc = "bottom"
    /\ \E batch \in {secret[Len(bottomLevelProofs) + 1]} :
          \/ batch.AssetSum = Nil
          \/ /\ ~SumPanics(batch.Accounts)
             /\ SumGoAccountBalances(batch.Accounts) # batch.AssetSum[1]

\* C24: a call of generateProof on elements whose AssetSum is absent, or is
\* not the sum recomputed from the accounts, panics before anything else
\* happens: no circuit is compiled or set up, the cache is untouched and no
\* proof is made.
C24_BadSumAbortsFirst ==
    [][AboutToProveWithBadSum =>
          /\ pc' = "panic"
          /\ panicMsg' \in {"AssetSum is nil", "Asset sum does not match",
                            INVALID_BALANCE_LENGTH_MESSAGE}
          /\ UNCHANGED <<cachedProofs, compiled, bottomLevelProofs, public>>]_vars

\* The batch with the wrong sum has a size no earlier batch had, so a call
\* that got as far as the cache would have compiled for it.
C24_Witness ==
    /\ Len(secret) = 2
    /\ secret[2].AssetSum # Nil
    /\ ~SumPanics(secret[2].Accounts)
    /\ SumGoAccountBalances(secret[2].Accounts) # secret[2].AssetSum[1]
    /\ Len(bottomLevelProofs) = 1
    /\ pc = "panic"
    /\ panicMsg = "Asset sum does not match"
    /\ Len(secret[2].Accounts) \notin DOMAIN cachedProofs
    /\ compiled # <<>>

\* How far a call of Prove has got.
Rank(at) ==
    CASE at = "bottom" -> 1
      [] at = "middle" -> 2
      [] at = "top" -> 3
      [] at = "bottomPaths" -> 4
      [] at = "middlePaths" -> 5
      [] at = "writeBottom" -> 6
      [] at = "writeMiddle" -> 7
      [] at = "writeTop" -> 8
      [] at = "done" -> 9
      [] OTHER -> 10

\* A proof without the two fields the back-fill sets.
AsGenerated(proof) == [proof EXCEPT !.MerklePath = Nil, !.MerklePosition = 0]

Attached(proofs) == \A i \in 1..Len(proofs) : proofs[i].MerklePath # Nil

\* A list of proofs only grows; a proof in it changes only by getting its
\* path and position, once.
OnlyForward(before, after) ==
    /\ Len(after) >= Len(before)
    /\ \A i \in 1..Len(before) :
          /\ AsGenerated(after[i]) = AsGenerated(before[i])
          /\ before[i].MerklePath # Nil => after[i] = before[i]

\* What writeProofsToFiles leaves in a file: the proof as it is in memory,
\* without the asset sum unless it is the top proof.
FilesOf(proofs, saveAssetSum) ==
    [i \in 1..Len(proofs) |->
        IF saveAssetSum THEN proofs[i] ELSE [proofs[i] EXCEPT !.AssetSum = Nil]]

\* C25: within a call of Prove every proof is generated, then gets its path
\* and position, then is stripped and written, and never goes back: the
\* call only advances, a generated proof changes only by getting its path
\* once, the bottom and middle files are written only when every proof of
\* the layer above exists and the paths are attached, the files hold the
\* proofs as they are then, and once a layer is written neither its proofs
\* nor its files change until the call returns.
C25_LifecycleOnlyForward ==
    [][run' = run =>
          /\ Rank(pc') >= Rank(pc)
          /\ OnlyForward(bottomLevelProofs, bottomLevelProofs')
          /\ OnlyForward(midLevelProofs, midLevelProofs')
          /\ OnlyForward(topLevelProof, topLevelProof')
          /\ public'.bottom # public.bottom =>
                /\ pc = "writeBottom"
                /\ Len(midLevelProofs) = CeilDiv(Len(bottomLevelProofs),
                                                 ACCOUNTS_PER_BATCH)
                /\ Len(topLevelProof) = 1
                /\ Attached(bottomLevelProofs)
                /\ public'.bottom = FilesOf(bottomLevelProofs, FALSE)
          /\ public'.mid # public.mid =>
                /\ pc = "writeMiddle"
                /\ Len(topLevelProof) = 1
                /\ Attached(midLevelProofs)
                /\ public'.mid = FilesOf(midLevelProofs, FALSE)
          /\ public'.top # public.top =>
                /\ pc = "writeTop"
                /\ public'.top = FilesOf(topLevelProof, TRUE)
          /\ pc \in {"writeMiddle", "writeTop", "done"} =>
                /\ bottomLevelProofs' = bottomLevelProofs
                /\ public'.bottom = public.bottom
          /\ pc \in {"writeTop", "done"} =>
                /\ midLevelProofs' = midLevelProofs
                /\ public'.mid = public.mid
          /\ pc = "done" =>
                /\ topLevelProof' = topLevelProof
                /\ public'.top = public.top]_vars

\* A call went through every stage for two middle proofs: the files hold
\* the proofs with their paths, the sum only at the top.
C25_Witness ==
    /\ pc = "done"
    /\ run = 1
    /\ Len(midLevelProofs) = 2
    /\ Attached(bottomLevelProofs) /\ Attached(midLevelProofs)
    /\ public.bottom = FilesOf(bottomLevelProofs, FALSE)
    /\ public.mid = FilesOf(midLevelProofs, FALSE)
    /\ public.top = FilesOf(topLevelProof, TRUE)
    /\ public.bottom[1].AssetSum = Nil
    /\ bottomLevelProofs[1].AssetSum # Nil

\* The cache after a step is the cache before it plus one entry for a size
\* that had none.
FirstTouchInsertion(before, after) ==
    \E proofLen \in (DOMAIN after) \ (DOMAIN before) :
        /\ DOMAIN after = (DOMAIN before) \cup {proofLen}
        /\ \A n \in DOMAIN before : after[n] = before[n]

\* C26: cachedProofs changes only by gaining an entry for a size that had
\* none; an entry that exists is never replaced or removed, also when
\* calls of generateProof run in parallel in one process.
C26_CacheOnlyFirstTouch ==
    [][cachedProofs' # cachedProofs =>
          FirstTouchInsertion(cachedProofs, cachedProofs')]_vars

\* A verifier call was made in this step.
VerifierCalled == vuResult' # vuResult \/ vfResult' # vfResult

\* C27: a call of VerifyUser or verifyFull changes nothing it is given: when
\* the call is over, returned or panicked, the arrays the caller shares
\* with it hold what they held before, so that the bundle (account, paths,
\* positions and the three proofs), respectively the proofs and the account
\* batches, are what was submitted, and the files and the prover's proofs
\* are untouched.
C27_VerifierChangesNothing ==
    [][VerifierCalled =>
          /\ UNCHANGED <<secret, public, bottomLevelProofs, midLevelProofs,
                         topLevelProof, cachedProofs>>
          /\ vuResult' # vuResult =>
                vuInput' = Some(SubmittedBundle(vuCase'[1].batch,
                                                vuCase'[1].account,
                                                vuCase'[1].position,
                                                vuCase'[1].path,
                                                vuCase'[1].kind))
          /\ vfResult' # vfResult => vfInput' = Some(FullInput(vfCase'))]_vars

\* A call that returned after folding a path from an odd position, where
\* the current node and the sibling change places; executed on the shared
\* memory, the call returns no error.
C27_Witness ==
    /\ vuResult = Ok
    /\ vuInput[1].ProofInfo.UserMerklePosition % 2 = 1
    /\ Len(vuInput[1].ProofInfo.UserMerklePath) = TREE_DEPTH
    /\ vuInput[1].ProofInfo.BottomProof.MerklePosition = 1
    /\ AfterVerifyMerklePath(
           GoComputeMiMCHashForAccount(vuInput[1].AccountInfo),
           vuInput[1].ProofInfo.UserMerklePosition,
           vuInput[1].ProofInfo.UserMerklePath,
           vuInput[1].ProofInfo.BottomProof.MerkleRoot).err = Ok

\* C28: for every list of at most 2^TREE_DEPTH leaf hashes the root of the
\* root-only computation is entry [0][0] of the grid built from the same
\* leaves, and when the leaves are the hashes of an account batch it is
\* also the root the circuit computes from those accounts, padding with
\* zero.
C28_RootsAgree ==
    mStage # "input" =>
        /\ mRoot = At(At(mNodes, 0), 0)
        /\ \A accounts \in LeafBatches :
              GoComputeMiMCHashesForAccounts(accounts) = mLeaves =>
                  /\ computeMerkleRootFromAccounts(accounts) = mRoot
                  /\ GoComputeMerkleRootFromAccounts(accounts) = mRoot

\* The three roots of a batch that needs padding.
C28_Witness ==
    /\ mStage = "built"
    /\ Len(mLeaves) = PowOfTwo(TREE_DEPTH) - 1
    /\ mRoot = At(At(mNodes, 0), 0)
    /\ \E accounts \in LeafBatches :
          /\ GoComputeMiMCHashesForAccounts(accounts) = mLeaves
          /\ computeMerkleRootFromAccounts(accounts) = mRoot

\* C29: verifyMerklePath returns an error, whatever the hash and the root,
\* when the path does not have TREE_DEPTH hashes or the position is not in
\* 0 .. 2^TREE_DEPTH - 1.
C29_BadLengthOrPositionRefused ==
    (/\ mStage = "given"
     /\ \/ Len(mPath) # TREE_DEPTH
        \/ mPos < 0
        \/ mPos >= PowOfTwo(TREE_DEPTH))
    => mResult \in {"merkle path is not of depth of tree",
                    "hashPosition out of bounds"}

\* A node one level up with the rest of its path, which folds to the root,
\* was refused for the length of the path.
C29_Witness ==
    /\ mStage = "given"
    /\ Len(mPath) = TREE_DEPTH - 1
    /\ mPos \in 0..(PowOfTwo(TREE_DEPTH - 1) - 1)
    /\ FoldPath(At(At(mNodes, TREE_DEPTH - 1), mPos), mPos, mPath) = mRoot
    /\ mResult = "merkle path is not of depth of tree"

\* An input within the limits: between one and ACCOUNTS_PER_BATCH^2
\* batches, each of one to ACCOUNTS_PER_BATCH accounts, every balance
\* component in [0, 2^RANGE_CHECK_BITS), the asset sum the sum of the
\* balances and no roots supplied.
WithinLimits(data) ==
    /\ Len(data) \in 1..(ACCOUNTS_PER_BATCH * ACCOUNTS_PER_BATCH)
    /\ \A i \in 1..Len(data) :
          /\ Len(data[i].Accounts) \in 1..ACCOUNTS_PER_BATCH
          /\ WellFormedBatch(data[i])

BelowBound(balance) ==
    \A k \in 1..Len(balance) : balance[k] < PowOfTwo(RANGE_CHECK_BITS)

\* The sum of the batches the m-th middle proof covers.
MiddleSum(data, m) ==
    SumOfBalances([i \in 1..Len(data) |->
        IF UpperLevelProofIndex(i - 1) = m - 1
        THEN data[i].AssetSum[1] ELSE ConstructGoBalance])

\* What the upper layers take as balances is within the range bound: the
\* sum of every batch and the sum of every middle proof.
LayerSumsInRange(data) ==
    /\ \A i \in 1..Len(data) : BelowBound(data[i].AssetSum[1])
    /\ \A m \in 1..CeilDiv(Len(data), ACCOUNTS_PER_BATCH) :
          BelowBound(MiddleSum(data, m))

====
